---- MODULE Spec2Model ----
(***************************************************************************)
(* HQSession (proxygen/lib/http/session/HQSession.cpp): the HTTP-over-QUIC *)
(* session core as a state machine.  Every transport or application        *)
(* callback is one atomic action (the session is single threaded and every *)
(* callback runs to completion).  Member functions of the session are      *)
(* operators from a session record to a session record; the action of a    *)
(* callback applies the operator of its entry point.                       *)
(***************************************************************************)
EXTENDS Integers, Sequences, FiniteSets, TLC

\* ------------------------------------------------------------------ bounds
\* peer-initiated bidirectional streams the transport may announce
NumPeerBidi == 3
\* peer-initiated unidirectional streams the transport may announce
NumPeerUni == 2
\* transactions the application may try to open
NumLocalBidi == 2
\* largest write budget / flow control window the transport reports
MaxWindow == 2
\* bytes of a serialized SETTINGS frame and of a serialized GOAWAY frame
SettingsLen == 2
GoawayLen == 1
\* bytes the application queues on a request stream with one sendHeaders
HeadersLen == 1
\* largest budget the transport hands to onConnectionWriteReady
MaxToSend == 2
\* GOAWAY frames the peer may send
NumGoaways == 2
\* streams the two sides open on one connection, the session's own control
\* streams aside, where every handler of the session is in play
MaxStreams == 1
\* request streams a client opens on one connection to a server that serves
\* nothing else
MaxRequests == 2
\* bytes of body the application queues on one request stream
BodyLen == 2
\* bytes of one request stream after which the transport hands nothing back
MaxHandedBack == 2
MaxInsertCountIncs == 1

\* ------------------------------------------------------- program constants
\* quic::kEightByteLimit, the largest stream id a varint can carry.  The
\* program's value is 2^62 - 1; the model only needs a value above every
\* stream id it creates.
kEightByteLimit == 1000000

\* read events the session serves between two runs of its loop callback
kMaxReadsPerLoop == 16

DrainStates ==
  {"NONE", "PENDING", "CLOSE_SENT", "CLOSE_RECEIVED", "FIRST_GOAWAY",
   "SECOND_GOAWAY", "DONE"}

\* the ALPN strings the session knows, one it does not know, and "no ALPN"
NoAlpn == "<none>"
Alpns == {NoAlpn, "h1q-fb", "h1q", "hq-27", "h1q-fb-v2", "h3-fb-05", "h3-27", "h2"}

\* unidirectional stream types and the prefaces a peer may send
ControlTypes == {"CONTROL", "QPACK_ENCODER", "QPACK_DECODER", "H1Q_CONTROL"}
UnknownPreface == "GREASE"
Prefaces == {"CONTROL", "QPACK_ENCODER", "H1Q_CONTROL", UnknownPreface}

NoDrop == [code |-> "none", perr |-> "none"]

\* what generating a GOAWAY and registering its delivery callback can give
GoawayOutcomes == {"sent", "nothing", "refused"}

\* ------------------------------------------------------ QUIC stream ids
isServerStream(id) == id % 2 = 1
isUnidirectionalStream(id) == (id \div 2) % 2 = 1
isBidirectionalStream(id) == ~isUnidirectionalStream(id)

PeerBit(dir) == IF dir = "DOWNSTREAM" THEN 0 ELSE 1
SelfBit(dir) == IF dir = "DOWNSTREAM" THEN 1 ELSE 0
PeerBidiIds(dir) == {4 * k + PeerBit(dir) : k \in 0 .. NumPeerBidi - 1}
PeerUniIds(dir) == {4 * k + 2 + PeerBit(dir) : k \in 0 .. NumPeerUni - 1}
LocalBidiId(dir, n) == 4 * n + SelfBit(dir)
LocalUniId(dir, n) == 4 * n + 2 + SelfBit(dir)

Max(a, b) == IF a >= b THEN a ELSE b
Min(a, b) == IF a <= b THEN a ELSE b

Repeat(x, n) == [i \in 1 .. n |-> x]
Restrict(f, S) == [x \in S |-> f[x]]

\* one statement after another: F continues with the result e of the first
Bind(e, F(_)) == F(e)

\* apply Op(s, id) to every id of ids, smallest id first
RECURSIVE FoldIds(_, _, _)
FoldIds(Op(_, _), s, ids) ==
  IF ids = {} THEN s
  ELSE LET i == CHOOSE x \in ids : \A y \in ids : x <= y
       IN FoldIds(Op, Op(s, i), ids \ {i})

\* ------------------------------------------------------------- the state
VARIABLES
  direction,            \* direction_: "UPSTREAM" (client) or "DOWNSTREAM" (server)
  alpn,                 \* what sock_->getAppProtocol() returns
  version,              \* version_: "NONE" until set
  versionUtils,         \* versionUtils_ is installed
  setup,                \* result of onTransportReadyCommon: "none", "ok", "failed"
  sock,                 \* sock_ is non-null
  drainState,           \* drainState_
  dropping,             \* dropping_
  dropInNextLoop,       \* dropInNextLoop_ (NoDrop when empty)
  loopScheduled,        \* isLoopCallbackScheduled()
  scheduledWrite,       \* scheduledWrite_
  maxToSend,            \* maxToSend_
  maxIncomingStreamId,  \* maxIncomingStreamId_
  maxAllowedStreamId,   \* maxAllowedStreamId_
  streams,              \* streams_: stream id -> request stream
  controlStreams,       \* controlStreams_: type -> control stream
  pendingUni,           \* ids the unidirectional dispatcher owns
  readCb,               \* ids with a read callback installed on the socket
  peekCb,               \* ids with a peek callback installed on the socket
  pendingProcessReadSet,\* pendingProcessReadSet_
  readsPerLoop,         \* readsPerLoop_
  numLocalBidi,         \* bidirectional streams the socket has created for us
  numLocalUni,          \* unidirectional streams the socket has created for us
  announced,            \* peer stream ids the transport has announced
  log                   \* what the session did: the observable history

vars ==
  <<direction, alpn, version, versionUtils, setup, sock, drainState, dropping,
    dropInNextLoop, loopScheduled, scheduledWrite, maxToSend,
    maxIncomingStreamId, maxAllowedStreamId, streams, controlStreams,
    pendingUni, readCb, peekCb, pendingProcessReadSet, readsPerLoop,
    numLocalBidi, numLocalUni, announced, log>>

\* the session as one record, for the member-function operators
Self ==
  [direction |-> direction, alpn |-> alpn, version |-> version,
   versionUtils |-> versionUtils, setup |-> setup, sock |-> sock,
   drainState |-> drainState, dropping |-> dropping,
   dropInNextLoop |-> dropInNextLoop, loopScheduled |-> loopScheduled,
   scheduledWrite |-> scheduledWrite, maxToSend |-> maxToSend,
   maxIncomingStreamId |-> maxIncomingStreamId,
   maxAllowedStreamId |-> maxAllowedStreamId, streams |-> streams,
   controlStreams |-> controlStreams, pendingUni |-> pendingUni,
   readCb |-> readCb, peekCb |-> peekCb,
   pendingProcessReadSet |-> pendingProcessReadSet,
   readsPerLoop |-> readsPerLoop,
   numLocalBidi |-> numLocalBidi, numLocalUni |-> numLocalUni,
   announced |-> announced, log |-> log,
   \* set by onStopSending for its own duration only
   isInOnStopSending |-> FALSE]

\* the history the properties read
InitLog ==
  [close |-> <<>>,        \* codes given to sock_->close, in order
   drops |-> <<>>,        \* codes of the dropConnectionSync runs that were not re-entrant
   dropErrs |-> <<>>,     \* the proxygen errors of these runs
   asyncDrops |-> <<>>,   \* codes given to dropConnectionAsync, latched or not
   stopSending |-> {},    \* <<id, code>> given to sock_->stopSending
   resets |-> {},         \* <<id, code>> given to sock_->resetStream
   goaways |-> <<>>,      \* stream ids of the GOAWAY frames generated
   goawayAcks |-> 0,      \* runs of onGoawayAck
   early |-> {},          \* streams written to before SETTINGS was out whole
   settingsWritten |-> 0, \* bytes of the SETTINGS frame handed to the transport
   destroyCalls |-> 0,    \* invocations of destroy()
   destroyed |-> FALSE,   \* the object has been deleted
   newTxnRefused |-> FALSE, \* newTransaction returned nullptr for the drain state
   goawayRecv |-> 0,      \* runs of onGoaway
   sockMisuse |-> FALSE,  \* sock_ was dereferenced while null
   stopped |-> {},        \* streams the peer sent a STOP_SENDING for
   icis |-> 0,            \* insert count increments the QPACK codec encoded
   steps |-> <<>>,        \* the steps of the loop callback that is running
   cleared |-> <<>>,      \* the streams whose callbacks the running handler
                          \* has set to nullptr, once for each time
   serviced |-> 0,        \* sock_->read calls since the loop callback ran last
   skipped |-> FALSE,     \* a readAvailable was skipped since it ran last
   connClose |-> {},      \* H1Q_FB_V1: "emitted" once headers were generated
                          \* while draining, "observed" once headers of the
                          \* peer came with Connection: close
   erased |-> {},         \* <<id, done>> of the streams erased: done tells
                          \* whether the stream was detached and had nothing
                          \* buffered, pending or queued at that moment
   checks |-> {}]         \* CHECKs that failed

\* a request stream.  The bytes of its egress side are numbered from 1 in the
\* order the codec generates them: writeBuf holds the numbers of the bytes
\* not yet taken by the transport, wire the numbers of the bytes the
\* transport accepted from writeChain, in the order it accepted them, and
\* handedBack counts the bytes it handed back.
\* finCb is the delivery callback the transport holds for the FIN of the
\* stream ("none", "registered", "acked", "canceled"), byteEvents what the
\* transaction was told about the delivery of its last byte.
\* blocked tells whether the header block of the peer's message waits for the
\* QPACK encoder stream ("blocked"), has waited ("unblocked") or never did.
NewStream ==
  [detached |-> FALSE, readBuf |-> <<>>, writeBuf |-> <<>>, pendingEOM |-> FALSE,
   enqueued |-> FALSE, ingressError |-> FALSE, txnDone |-> FALSE,
   pendingByteEvents |-> 0, errs |-> <<>>, egressHeaders |-> FALSE,
   egressEOM |-> FALSE, ingressHeaders |-> FALSE, bytesWritten |-> 0,
   wire |-> <<>>, handedBack |-> 0, finCb |-> "none", byteEvents |-> <<>>,
   bytesSkipped |-> 0, blocked |-> "no"]

\* streamEgressCommittedByteOffset: the bytes written and the bytes skipped
streamEgressCommittedByteOffset(st) == st.bytesWritten + st.bytesSkipped

\* streamWriteByteOffset: the bytes committed and the bytes buffered
streamWriteByteOffset(st) ==
  streamEgressCommittedByteOffset(st) + Len(st.writeBuf)

\* the codec appends n bytes to the write buffer of a stream
generate(st, n) ==
  st.writeBuf \o [i \in 1 .. n |-> streamWriteByteOffset(st) + i]

getNumStreams(s) == Cardinality(DOMAIN s.streams)

\* --------------------------------------------------------- small helpers
scheduleLoopCallback(s) ==
  IF s.loopScheduled THEN s ELSE [s EXCEPT !.loopScheduled = TRUE]

scheduleWrite(s) ==
  IF s.scheduledWrite THEN s
  ELSE [s EXCEPT !.scheduledWrite = TRUE,
                 !.log.sockMisuse = @ \/ ~s.sock]

\* HQStreamTransportBase::detach: the transaction lets go of the stream
detach(s, id) ==
  scheduleLoopCallback([s EXCEPT !.streams[id].detached = TRUE])

\* the transaction goes away once it is complete and no byte event is
\* pending; a queued EOM is the last-byte event of handleLastByteEvents
maybeDetach(s, id) ==
  IF /\ ~s.streams[id].detached
     /\ s.streams[id].txnDone
     /\ s.streams[id].pendingByteEvents = 0
     /\ ~s.streams[id].pendingEOM
  THEN detach(s, id)
  ELSE s

\* an onCanceled of the control stream that leaves the drain state alone
ControlOnCanceled_keepState(s) == scheduleLoopCallback(s)

\* HQControlStream::onCanceled
ControlOnCanceled(s) ==
  scheduleLoopCallback([s EXCEPT !.drainState = "DONE"])

\* HQSession::onCanceled for the delivery callback of a request stream FIN
StreamOnCanceled(s, id) ==
  IF id \in DOMAIN s.streams /\ ~s.streams[id].detached
  THEN maybeDetach([s EXCEPT !.streams[id].pendingByteEvents = 0,
                             !.streams[id].finCb = "canceled"], id)
  ELSE s

\* sock_->close(code); sock_.reset().  Closing the socket cancels every
\* delivery callback still registered, which runs the onCanceled handlers.
closeSocket(s, code) ==
  LET ctrlCb == \E t \in DOMAIN s.controlStreams :
                   s.controlStreams[t].deliveryCbs # <<>>
      withCb == {i \in DOMAIN s.streams : s.streams[i].pendingByteEvents > 0}
      s1 == [s EXCEPT !.log.close = Append(@, code),
                      !.log.sockMisuse = @ \/ ~s.sock,
                      !.controlStreams =
                          [t \in DOMAIN @ |-> [@[t] EXCEPT !.deliveryCbs = <<>>]]]
  IN [FoldIds(StreamOnCanceled,
              IF ctrlCb THEN ControlOnCanceled(s1) ELSE s1,
              withCb)
        EXCEPT !.sock = FALSE]

clearStreamCallbacks(s, id) ==
  IF s.sock
  THEN [s EXCEPT !.readCb = @ \ {id}, !.peekCb = @ \ {id},
                 !.log.cleared = Append(@, id)]
  ELSE s

cleanupPendingStreams(s) == FoldIds(clearStreamCallbacks, s, s.pendingUni)

\* what checkForDetach asks of a stream
Detachable(st) ==
  /\ st.detached
  /\ st.readBuf = <<>>
  /\ st.writeBuf = <<>>
  /\ ~st.pendingEOM
  /\ ~st.enqueued

detachStreamTransport(s, id) ==
  LET s1 == [clearStreamCallbacks(s, id) EXCEPT
               !.streams = Restrict(@, DOMAIN @ \ {id}),
               !.log.erased = @ \cup {<<id, Detachable(s.streams[id])>>}]
  IN IF getNumStreams(s1) = 0 THEN cleanupPendingStreams(s1) ELSE s1

\* a check that lets a detached stream go with what it has buffered
checkForDetach_detachedOnly(s, id) ==
  IF s.streams[id].detached THEN detachStreamTransport(s, id) ELSE s

checkForDetach(s, id) ==
  IF Detachable(s.streams[id]) THEN detachStreamTransport(s, id) ELSE s

\* DelayedDestruction::destroy under a destructor guard: the deletion itself
\* happens when the outermost guard is released, at the end of the callback
destroy(s) == [s EXCEPT !.log.destroyCalls = @ + 1]

\* checkForShutdown with destroy() inside the "if (sock_)" block
checkForShutdown_needsSocket(s) ==
  LET s1 == IF /\ s.version # "H1Q_FB_V1"
               /\ s.direction = "UPSTREAM"
               /\ s.drainState = "PENDING"
            THEN [s EXCEPT !.drainState = "DONE"]
            ELSE s
  IN Bind(FoldIds(checkForDetach, s1, DOMAIN s.streams), LAMBDA s2 :
       IF /\ s2.drainState = "DONE" /\ getNumStreams(s2) = 0
          /\ ~s2.loopScheduled /\ s2.sock
       THEN destroy(closeSocket(s2, "none"))
       ELSE s2)

checkForShutdown(s) ==
  LET s1 == IF /\ s.version # "H1Q_FB_V1"
               /\ s.direction = "UPSTREAM"
               /\ s.drainState = "PENDING"
            THEN [s EXCEPT !.drainState = "DONE"]
            ELSE s
  IN Bind(FoldIds(checkForDetach, s1, DOMAIN s.streams), LAMBDA s2 :
       IF s2.drainState = "DONE" /\ getNumStreams(s2) = 0 /\ ~s2.loopScheduled
       THEN destroy(IF s2.sock THEN closeSocket(s2, "none") ELSE s2)
       ELSE s2)

abortIngress(s, id) ==
  [s EXCEPT !.streams[id].ingressError = TRUE, !.streams[id].readBuf = <<>>]

abortEgress(s, id) ==
  maybeDetach([s EXCEPT !.streams[id].writeBuf = <<>>,
                        !.streams[id].pendingEOM = FALSE,
                        !.streams[id].enqueued = FALSE], id)

\* HQStreamTransportBase::errorOnTransaction with an INGRESS_AND_EGRESS
\* exception: txn_.onError ends the transaction in both directions
errorOnTransaction(s, id, err) ==
  LET s1 == IF s.streams[id].detached THEN s
            ELSE [s EXCEPT !.streams[id].errs = Append(@, err),
                           !.streams[id].txnDone = TRUE]
  IN abortEgress(abortIngress(s1, id), id)


errorAllStreams(s, err) ==
  FoldIds(LAMBDA x, id : errorOnTransaction(x, id, err), s, DOMAIN s.streams)

\* dropConnectionSync that does not look at dropping_
dropConnectionSync_reentrant(s, code, perr) ==
  LET s0 == [s EXCEPT !.dropping = TRUE, !.log.drops = Append(@, code),
                      !.log.dropErrs = Append(@, perr)]
      s1 == IF getNumStreams(s0) > 0
            THEN errorAllStreams(closeSocket(s0, code), perr)
            ELSE closeSocket(s0, "none")
  IN checkForShutdown([s1 EXCEPT !.drainState = "DONE",
                                 !.loopScheduled = FALSE])

dropConnectionSync(s, code, perr) ==
  IF s.dropping THEN s
  ELSE LET s0 == [s EXCEPT !.dropping = TRUE, !.log.drops = Append(@, code),
                           !.log.dropErrs = Append(@, perr)]
           s1 == IF getNumStreams(s0) > 0
                 THEN errorAllStreams(closeSocket(s0, code), perr)
                 ELSE IF s0.sock THEN closeSocket(s0, "none") ELSE s0
       IN \* drainState_ = DONE; cancelLoopCallback(); checkForShutdown()
          Bind(checkForShutdown([s1 EXCEPT !.drainState = "DONE",
                                           !.loopScheduled = FALSE]),
               LAMBDA s2 :
                 IF getNumStreams(s2) = 0 THEN s2
                 ELSE [s2 EXCEPT !.log.checks =
                                    @ \cup {"dropConnectionSync: streams left"}])

\* a slot that keeps the last request
dropConnectionAsync_overwrite(s, code, perr) ==
  scheduleLoopCallback(
    [s EXCEPT !.log.asyncDrops = Append(@, code),
              !.dropInNextLoop = [code |-> code, perr |-> perr]])

dropConnectionAsync(s, code, perr) ==
  LET s1 == [s EXCEPT !.log.asyncDrops = Append(@, code)]
  IN IF s1.dropInNextLoop = NoDrop
     THEN scheduleLoopCallback(
            [s1 EXCEPT !.dropInNextLoop = [code |-> code, perr |-> perr]])
     ELSE s1

\* onConnectionError: CHECK(!isInOnStopSending_), then the synchronous drop
onConnectionError(s, code) ==
  IF s.isInOnStopSending
  THEN [s EXCEPT !.log.checks = @ \cup {"!isInOnStopSending_"}]
  ELSE dropConnectionSync(s, code, "kErrorConnectionReset")

dropConnection(s) == dropConnectionSync(s, "HTTP_NO_ERROR", "kErrorDropped")

\* ------------------------------------------------------------------ drain
\* getGoawayStreamId that forgets the drain state
getGoawayStreamId_max(s) == kEightByteLimit

getGoawayStreamId(s) ==
  IF s.drainState = "NONE" \/ s.drainState = "PENDING"
  THEN kEightByteLimit
  ELSE s.maxIncomingStreamId

ConnControlType(s) ==
  IF s.version = "H1Q_FB_V2" THEN "H1Q_CONTROL" ELSE "CONTROL"

\* bytes the transport has taken or buffered for the egress side of a control
\* stream: getStreamWriteOffset + getStreamWriteBufferedBytes
WriteOffset(cs) == cs.written

\* GoawayUtils::sendGoaway.  gw is what the codec and the transport do:
\* "sent" when the frame is generated and the delivery callback registered,
\* "nothing" when generateGoaway returns 0, "refused" when the frame is
\* generated and the transport then fails to tell the write offset or to
\* register the delivery callback.
GoawayUtils_sendGoaway(s, gw) ==
  IF s.direction = "UPSTREAM" THEN s
  ELSE IF s.drainState = "DONE" THEN s
  ELSE
    LET t == ConnControlType(s)
        goawayStreamId == getGoawayStreamId(s)
        buf == s.controlStreams[t].writeBuf \o Repeat("GOAWAY", GoawayLen)
        offset == WriteOffset(s.controlStreams[t]) + Len(buf)
        next == IF s.drainState = "PENDING" THEN "FIRST_GOAWAY"
                ELSE "SECOND_GOAWAY"
        generated == [s EXCEPT !.controlStreams[t].writeBuf = buf,
                               !.log.goaways = Append(@, goawayStreamId),
                               !.log.sockMisuse = @ \/ ~s.sock]
    IN IF gw = "nothing"
       THEN \* shortcut to shutdown
            [s EXCEPT !.drainState = "DONE", !.log.sockMisuse = @ \/ ~s.sock]
       ELSE IF gw = "refused"
       THEN [generated EXCEPT !.drainState = "DONE"]
       ELSE [scheduleWrite(
               [generated EXCEPT !.controlStreams[t].deliveryCbs = Append(@, offset)])
               EXCEPT !.drainState = next]

\* versionUtils_->sendGoaway(): H1QFBV1VersionUtils::sendGoaway only marks
\* the per-stream HTTP/1.1 codecs; the framed profiles use GoawayUtils
sendGoaway(s, gw) ==
  IF s.version = "H1Q_FB_V1" THEN s ELSE GoawayUtils_sendGoaway(s, gw)

\* drainImpl without its "already draining" test
drainImpl_restart(s, gw) ==
  LET s1 == [s EXCEPT !.drainState = "PENDING"]
  IN IF s1.versionUtils THEN sendGoaway(s1, gw) ELSE s1

drainImpl(s, gw) ==
  IF s.drainState # "NONE" THEN s
  ELSE LET s1 == [s EXCEPT !.drainState = "PENDING"]
       IN IF s1.versionUtils THEN sendGoaway(s1, gw) ELSE s1

notifyPendingShutdown(s, gw) == drainImpl(s, gw)

closeWhenIdle(s, gw) ==
  checkForShutdown(cleanupPendingStreams(
    Bind(drainImpl(s, gw), LAMBDA s1 :
      IF s1.version = "H1Q_FB_V1"
      THEN [s1 EXCEPT !.drainState = "DONE"]
      ELSE s1)))

\* a session timeout that closes the session although it has streams
timeoutExpired_always(s, gw) ==
  closeWhenIdle([s EXCEPT !.log.steps = Append(@, "setCloseReason TIMEOUT")],
                gw)

\* the calls of resetTimeout and of setCloseReason are steps of the handler
timeoutExpired(s, gw) ==
  IF getNumStreams(s) > 0
  THEN [s EXCEPT !.log.steps = Append(@, "resetTimeout")]
  ELSE closeWhenIdle(
         [s EXCEPT !.log.steps = Append(@, "setCloseReason TIMEOUT")], gw)

onGoawayAck(s, gw) ==
  scheduleLoopCallback(
    [(IF s.drainState = "FIRST_GOAWAY" THEN sendGoaway(s, gw)
      ELSE IF s.drainState = "SECOND_GOAWAY"
           THEN [s EXCEPT !.drainState = "DONE"]
           ELSE s)
       EXCEPT !.log.goawayAcks = @ + 1])

\* ------------------------------------------------------------------ setup
\* the protocol strings of the session's header
kH1QV1ProtocolString == "h1q-fb"
kH1QLigerProtocolString == "h1q"
kHQCurrentDraft == "hq-27"
kH1QV2ProtocolString == "h1q-fb-v2"
kH3FBCurrentDraft == "h3-fb-05"
kH3CurrentDraft == "h3-27"

\* the version chosen for an ALPN where hq-27 counts as an HTTP/3 draft
VersionOf_draft(a, old) ==
  IF a \in {kH1QV1ProtocolString, kH1QLigerProtocolString} THEN "H1Q_FB_V1"
  ELSE IF a = kH1QV2ProtocolString THEN "H1Q_FB_V2"
  ELSE IF a \in {kH3FBCurrentDraft, kH3CurrentDraft, kHQCurrentDraft} THEN "HQ"
  ELSE old

\* the if-chain over the ALPN string: version_ keeps its value, old, when
\* the string is none of the six
VersionOf(a, old) ==
  IF a \in {kH1QV1ProtocolString, kH1QLigerProtocolString, kHQCurrentDraft}
  THEN "H1Q_FB_V1"
  ELSE IF a = kH1QV2ProtocolString THEN "H1Q_FB_V2"
  ELSE IF a \in {kH3FBCurrentDraft, kH3CurrentDraft} THEN "HQ"
  ELSE old

\* getAndCheckApplicationProtocol followed by setVersionUtils; the ok field
\* is the return value
getAndCheckApplicationProtocol(s) ==
  LET v == IF s.alpn # NoAlpn THEN VersionOf(s.alpn, s.version) ELSE s.version
      s1 == [s EXCEPT !.version = v]
  IN IF s.alpn = NoAlpn \/ v = "NONE"
     THEN [ok |-> FALSE, s |-> onConnectionError(s1, "CONNECT_FAILED")]
     ELSE [ok |-> TRUE, s |-> [s1 EXCEPT !.versionUtils = TRUE]]

\* createEgressControlStream that reports success when the transport has
\* refused the stream
createEgressControlStream_ignoreFailure(s, type, fail) ==
  IF fail
  THEN [ok |-> TRUE, s |-> s]
  ELSE [ok |-> TRUE,
        s |-> [s EXCEPT
                 !.numLocalUni = @ + 1,
                 !.controlStreams =
                    [t \in DOMAIN @ \cup {type} |->
                       IF t = type
                       THEN [egressId |-> LocalUniId(s.direction, s.numLocalUni),
                             ingressId |-> -1,
                             ingressCodec |-> FALSE,
                             writeBuf |-> <<"PREFACE">>,
                             written |-> 0,
                             deliveryCbs |-> <<>>]
                       ELSE @[t]]]]

\* createEgressControlStream; fail says the transport cannot create the stream
createEgressControlStream(s, type, fail) ==
  IF fail
  THEN [ok |-> FALSE, s |-> onConnectionError(s, "CONNECT_FAILED")]
  ELSE [ok |-> TRUE,
        s |-> [s EXCEPT
                 !.numLocalUni = @ + 1,
                 !.log.checks = IF type \in DOMAIN s.controlStreams
                                THEN @ \cup {"Emplacement failed"} ELSE @,
                 !.controlStreams =
                    [t \in DOMAIN @ \cup {type} |->
                       IF t = type
                       THEN [egressId |-> LocalUniId(s.direction, s.numLocalUni),
                             ingressId |-> -1,
                             ingressCodec |-> FALSE,
                             writeBuf |-> <<"PREFACE">>,
                             written |-> 0,
                             deliveryCbs |-> <<>>]
                       ELSE @[t]]]]

\* sendSettings whose codec generates no frame
sendSettings_nothing(s) == scheduleWrite(s)

\* HQVersionUtils::sendSettings
sendSettings(s) ==
  scheduleWrite([s EXCEPT !.controlStreams["CONTROL"].writeBuf =
                              @ \o Repeat("SETTINGS", SettingsLen)])

RequiredControlStreams(v) ==
  IF v = "HQ" THEN <<"CONTROL", "QPACK_ENCODER", "QPACK_DECODER">>
  ELSE IF v = "H1Q_FB_V2" THEN <<"H1Q_CONTROL">>
  ELSE <<>>

\* create the types of seq in order, stopping at the first failure; failAt is
\* the position of the stream the transport refuses (0: none)
RECURSIVE createAll(_, _, _, _)
createAll(s, seq, i, failAt) ==
  IF i > Len(seq) THEN [ok |-> TRUE, s |-> s]
  ELSE Bind(createEgressControlStream(s, seq[i], i = failAt), LAMBDA r :
         IF r.ok THEN createAll(r.s, seq, i + 1, failAt) ELSE r)

\* versionUtils_->createEgressControlStreams()
createEgressControlStreams(s, failAt) ==
  IF s.version = "H1Q_FB_V1" THEN [ok |-> TRUE, s |-> s]
  ELSE Bind(createAll(s, RequiredControlStreams(s.version), 1, failAt),
            LAMBDA r :
              IF ~r.ok THEN r
              ELSE IF s.version = "HQ"
                   THEN [ok |-> TRUE, s |-> scheduleWrite(sendSettings(r.s))]
                   ELSE [ok |-> TRUE, s |-> scheduleWrite(r.s)])

onTransportReadyCommon(s, failAt, gw) ==
  Bind(getAndCheckApplicationProtocol(s), LAMBDA a :
    IF ~a.ok THEN [a.s EXCEPT !.setup = "failed"]
    ELSE Bind(createEgressControlStreams(a.s, failAt), LAMBDA c :
           IF ~c.ok THEN [c.s EXCEPT !.setup = "failed"]
           ELSE [(IF c.s.drainState = "PENDING"
                  THEN sendGoaway(c.s, gw) ELSE c.s)
                   EXCEPT !.setup = "ok"]))


\* ---------------------------------------------------------- new streams
isPeerUniStream(s, id) ==
  isUnidirectionalStream(id) /\ (id % 2 = PeerBit(s.direction))
isSelfUniStream(s, id) ==
  isUnidirectionalStream(id) /\ (id % 2 = SelfBit(s.direction))

\* HQVersionUtils::abortStream: a QPACK cancel on the decoder stream
versionAbortStream(s, id) ==
  IF s.version = "HQ" /\ "QPACK_DECODER" \in DOMAIN s.controlStreams
  THEN scheduleWrite([s EXCEPT !.controlStreams["QPACK_DECODER"].writeBuf =
                                   Append(@, "QPACK")])
  ELSE s

\* HQSession::abortStream with direction INGRESS_AND_EGRESS
abortStream(s, id, err) ==
  LET s0 == [s EXCEPT !.log.sockMisuse = @ \/ ~s.sock]
      stop == isBidirectionalStream(id) \/ isPeerUniStream(s, id)
      reset == isBidirectionalStream(id) \/ isSelfUniStream(s, id)
  IN [(IF stop THEN versionAbortStream(s0, id) ELSE s0) EXCEPT
        !.log.stopSending = IF stop THEN @ \cup {<<id, err>>} ELSE @,
        !.log.resets = IF reset THEN @ \cup {<<id, err>>} ELSE @]

H1QFBV1_checkNewStream(s, id) ==
  IF isUnidirectionalStream(id) \/ isServerStream(id)
  THEN [ok |-> FALSE, s |-> abortStream(s, id, "HTTP_WRONG_STREAM")]
  ELSE [ok |-> TRUE, s |-> s]

\* a check that forgets the limits of a draining session
GoawayUtils_checkNewStream_noLimit(s, id) ==
  IF isBidirectionalStream(id) /\ isServerStream(id)
  THEN [ok |-> FALSE, s |-> abortStream(s, id, "HTTP_WRONG_STREAM")]
  ELSE [ok |-> TRUE, s |-> s]

GoawayUtils_checkNewStream(s, id) ==
  IF isBidirectionalStream(id) /\ isServerStream(id)
  THEN [ok |-> FALSE, s |-> abortStream(s, id, "HTTP_WRONG_STREAM")]
  ELSE IF /\ s.drainState # "NONE"
          /\ \/ s.direction = "UPSTREAM" /\ id > s.maxAllowedStreamId
             \/ /\ s.direction = "DOWNSTREAM"
                /\ isBidirectionalStream(id)
                /\ id > s.maxIncomingStreamId
       THEN [ok |-> FALSE, s |-> abortStream(s, id, "HTTP_REQUEST_REJECTED")]
       ELSE [ok |-> TRUE, s |-> s]

checkNewStream(s, id) ==
  IF s.version = "H1Q_FB_V1" THEN H1QFBV1_checkNewStream(s, id)
  ELSE GoawayUtils_checkNewStream(s, id)

\* createStreamTransport: nullptr when the stream exists already
createStreamTransport(s, id) ==
  IF id \in DOMAIN s.streams THEN [ok |-> FALSE, s |-> s]
  ELSE [ok |-> TRUE,
        s |-> [s EXCEPT !.streams =
                 [i \in DOMAIN @ \cup {id} |->
                    IF i = id THEN NewStream ELSE @[i]]]]

\* onNewBidirectionalStream that leaves maxIncomingStreamId_ alone
onNewBidirectionalStream_keepMax(s, id) ==
  Bind(checkNewStream(s, id), LAMBDA c :
    IF ~c.ok THEN c.s
    ELSE [createStreamTransport(c.s, id).s EXCEPT !.readCb = @ \cup {id}])

onNewBidirectionalStream(s, id) ==
  Bind(checkNewStream(s, id), LAMBDA c :
    IF ~c.ok THEN c.s
    ELSE [createStreamTransport(c.s, id).s EXCEPT
            !.readCb = @ \cup {id},
            !.maxIncomingStreamId = Max(@, id)])

onNewUnidirectionalStream(s, id) ==
  Bind(checkNewStream(s, id), LAMBDA c :
    IF ~c.ok THEN c.s
    ELSE [c.s EXCEPT !.pendingUni = @ \cup {id}, !.peekCb = @ \cup {id}])

\* ------------------------------------------- unidirectional dispatcher
H1QFBV2_parseStreamPreface(preface) ==
  IF preface = "H1Q_CONTROL" THEN preface ELSE "none"

HQ_parseStreamPreface(preface) ==
  IF preface \in {"CONTROL", "PUSH", "QPACK_ENCODER", "QPACK_DECODER"}
  THEN preface ELSE "none"

parseStreamPreface(s, preface) ==
  IF s.version = "HQ" THEN HQ_parseStreamPreface(preface)
  ELSE IF s.version = "H1Q_FB_V2" THEN H1QFBV2_parseStreamPreface(preface)
  ELSE "none"

\* rejectStream that only stops reading the stream
rejectStream_silent(s, id) ==
  [s EXCEPT !.log.sockMisuse = @ \/ ~s.sock,
            !.peekCb = @ \ {id},
            !.readCb = @ \ {id}]

rejectStream(s, id) ==
  [s EXCEPT !.log.stopSending = @ \cup {<<id, "HTTP_UNKNOWN_STREAM_TYPE">>},
            !.log.sockMisuse = @ \/ ~s.sock,
            !.peekCb = @ \ {id},
            !.readCb = @ \ {id}]

\* createIngressControlStream that lets a second stream of a type take the
\* place of the first
createIngressControlStream_replace(s, id, type) ==
  IF type \notin DOMAIN s.controlStreams
  THEN [ok |-> FALSE,
        s |-> [s EXCEPT !.log.checks = @ \cup {"ingress without egress stream"}]]
  ELSE [ok |-> TRUE,
        s |-> [s EXCEPT !.controlStreams[type].ingressId = id,
                        !.controlStreams[type].ingressCodec = TRUE]]

createIngressControlStream(s, id, type) ==
  IF type \notin DOMAIN s.controlStreams
  THEN [ok |-> FALSE,
        s |-> [s EXCEPT !.log.checks = @ \cup {"ingress without egress stream"}]]
  ELSE IF s.controlStreams[type].ingressCodec
  THEN [ok |-> FALSE,
        s |-> dropConnectionAsync(s, "HTTP_WRONG_STREAM_COUNT", "kErrorConnection")]
  ELSE [ok |-> TRUE,
        s |-> [s EXCEPT !.controlStreams[type].ingressId = id,
                        !.controlStreams[type].ingressCodec = TRUE]]

tryCreateIngressControlStream(s, id, preface) ==
  LET res == parseStreamPreface(s, preface)
  IN IF res = "none" THEN [ok |-> FALSE, s |-> s]
     ELSE createIngressControlStream(s, id, res)

assignReadCallback(s, id, type) ==
  Bind(tryCreateIngressControlStream(s, id, type), LAMBDA c :
    IF ~c.ok THEN rejectStream(c.s, id)
    ELSE [c.s EXCEPT !.peekCb = @ \ {id}, !.readCb = @ \cup {id}])

\* the dispatcher's peek callback once the whole preface varint is there
onPrefaceDecoded(s, id, preface) ==
  LET s1 == [s EXCEPT !.pendingUni = @ \ {id}]
  IN IF parseStreamPreface(s1, preface) = "none"
     THEN rejectStream(s1, id)
     ELSE assignReadCallback(s1, id, preface)

\* controlStreamReadError: the peer reset, or the transport failed, the
\* ingress side of a control stream.  kind is the type of the QUIC error:
\* "app", "local", "localNoError" or "transport"
toProxygenError(kind) ==
  IF kind = "app" THEN "kErrorConnection" ELSE "kErrorConnectionReset"

\* a handleSessionError that expects every local error at shutdown
handleSessionErrorControl_anyLocal(s, kind, perr) ==
  IF kind \in {"localNoError", "local"} THEN s
  ELSE dropConnectionAsync(s, "HTTP_CLOSED_CRITICAL_STREAM", perr)

\* handleSessionError for a control stream, with the result of
\* quicControlStreamError as its error
handleSessionErrorControl(s, kind, perr) ==
  IF kind = "localNoError" THEN s
  ELSE dropConnectionAsync(s, "HTTP_CLOSED_CRITICAL_STREAM", perr)

controlStreamReadError(s, id, kind) ==
  IF \E t \in DOMAIN s.controlStreams : s.controlStreams[t].ingressId = id
  THEN handleSessionErrorControl(s, kind, toProxygenError(kind))
  ELSE s


\* ------------------------------------------------------- peer's GOAWAY
onGoaway(s, lastGoodStreamID) ==
  LET s1 == [s EXCEPT !.maxAllowedStreamId = Min(@, lastGoodStreamID),
                      !.log.goawayRecv = @ + 1]
  IN checkForShutdown(
       Bind(FoldIds(LAMBDA x, id :
                      IF ~x.streams[id].detached /\ id > x.maxAllowedStreamId
                      THEN errorOnTransaction(x, id, "kErrorStreamUnacknowledged")
                      ELSE x,
                    \* onGoaway is only called once versionUtils_ is there and
                    \* upstream sendGoaway generates nothing, so drainImpl
                    \* needs no outcome
                    drainImpl(s1, "sent"),
                    {i \in DOMAIN s.streams : ~s.streams[i].detached}),
            LAMBDA s3 :
              IF s3.drainState = "NONE" \/ s3.drainState = "PENDING"
              THEN [s3 EXCEPT !.drainState = "FIRST_GOAWAY"]
              ELSE IF s3.drainState = "FIRST_GOAWAY"
                   THEN [s3 EXCEPT !.drainState = "DONE"]
                   ELSE s3))

\* ------------------------------------------------------- transactions
\* newTransaction without the test of the drain state
newTransaction_anyState(s, created) ==
  IF ~created
  THEN [s EXCEPT !.log.sockMisuse = @ \/ ~s.sock]
  ELSE LET quicStreamId == LocalBidiId(s.direction, s.numLocalBidi)
           s1 == [s EXCEPT !.numLocalBidi = @ + 1,
                           !.log.sockMisuse = @ \/ ~s.sock]
           c == createStreamTransport(s1, quicStreamId)
       IN IF c.ok
          THEN [c.s EXCEPT !.readCb = @ \cup {quicStreamId}]
          ELSE abortStream(c.s, quicStreamId, "HTTP_INTERNAL_ERROR")

\* created says whether sock_->createBidirectionalStream() gave a stream
newTransaction(s, created) ==
  IF s.drainState \in {"CLOSE_SENT", "FIRST_GOAWAY", "DONE"}
  THEN [s EXCEPT !.log.newTxnRefused = TRUE]
  ELSE IF ~created
  THEN [s EXCEPT !.log.sockMisuse = @ \/ ~s.sock]
  ELSE LET quicStreamId == LocalBidiId(s.direction, s.numLocalBidi)
           s1 == [s EXCEPT !.numLocalBidi = @ + 1,
                           !.log.sockMisuse = @ \/ ~s.sock]
           c == createStreamTransport(s1, quicStreamId)
       IN IF c.ok
          THEN [c.s EXCEPT !.readCb = @ \cup {quicStreamId}]
          ELSE abortStream(c.s, quicStreamId, "HTTP_INTERNAL_ERROR")

H1QFBV1_checkSendingGoaway(s, wantsKeepalive, gw) ==
  Bind(IF s.drainState = "NONE" /\ ~wantsKeepalive
       THEN notifyPendingShutdown(s, gw) ELSE s,
       LAMBDA s1 :
         IF s1.drainState = "CLOSE_RECEIVED" THEN [s1 EXCEPT !.drainState = "DONE"]
         ELSE IF s1.drainState = "PENDING"
              THEN [s1 EXCEPT !.drainState = "CLOSE_SENT"]
              ELSE s1)

checkSendingGoaway(s, wantsKeepalive, gw) ==
  IF s.version = "H1Q_FB_V1" THEN H1QFBV1_checkSendingGoaway(s, wantsKeepalive, gw)
  ELSE s

notifyPendingEgress(s, id) ==
  scheduleWrite([s EXCEPT !.streams[id].enqueued = TRUE])

\* the transaction is complete once its message went out with an EOM and the
\* peer's message came in whole
txnComplete(s, id) ==
  IF /\ ~s.streams[id].txnDone
     /\ s.streams[id].egressEOM
     /\ s.streams[id].ingressHeaders
  THEN maybeDetach([s EXCEPT !.streams[id].txnDone = TRUE], id)
  ELSE s

\* the HTTP/1.1 codec of a draining session generates Connection: close
emitsClose(s) == s.version = "H1Q_FB_V1" /\ s.drainState # "NONE"

sendHeaders(s, id, wantsKeepalive, includeEOM, gw) ==
  txnComplete(
    notifyPendingEgress(
      [Bind(IF s.versionUtils THEN checkSendingGoaway(s, wantsKeepalive, gw)
            ELSE s,
            LAMBDA s1 :
              IF emitsClose(s1)
              THEN [s1 EXCEPT !.log.connClose = @ \cup {"emitted"}]
              ELSE s1)
         EXCEPT !.streams[id].writeBuf = generate(s.streams[id], HeadersLen),
                !.streams[id].egressHeaders = TRUE,
                !.streams[id].egressEOM = includeEOM,
                !.streams[id].pendingEOM = includeEOM],
      id),
    id)

sendEOM(s, id) ==
  txnComplete(notifyPendingEgress([s EXCEPT !.streams[id].pendingEOM = TRUE,
                                            !.streams[id].egressEOM = TRUE], id), id)

\* sendBody with a body the codec frames into n bytes
sendBody(s, id, n, includeEOM) ==
  txnComplete(
    notifyPendingEgress(
      [s EXCEPT !.streams[id].writeBuf = generate(s.streams[id], n),
                !.streams[id].pendingEOM = @ \/ includeEOM,
                !.streams[id].egressEOM = @ \/ includeEOM],
      id),
    id)

\* trimPendingEgressBody: what it returns and what it leaves in the write
\* buffer
trimPendingEgressBody_removed(st, trimOffset) ==
  LET bytesCommited == streamEgressCommittedByteOffset(st)
      removed == Min(trimOffset - bytesCommited, Len(st.writeBuf))
  IN IF bytesCommited > trimOffset
     THEN [trimBytes |-> 0, writeBuf |-> st.writeBuf]
     ELSE [trimBytes |-> removed,
           writeBuf |-> SubSeq(st.writeBuf, removed + 1, Len(st.writeBuf))]

trimPendingEgressBody(st, trimOffset) ==
  LET bytesCommited == streamEgressCommittedByteOffset(st)
      trimBytes == trimOffset - bytesCommited
      \* writeBuf_.trimStartAtMost(trimBytes)
      removed == Min(trimBytes, Len(st.writeBuf))
  IN IF bytesCommited > trimOffset
     THEN [trimBytes |-> 0, writeBuf |-> st.writeBuf]
     ELSE [trimBytes |-> trimBytes,
           writeBuf |-> SubSeq(st.writeBuf, removed + 1, Len(st.writeBuf))]

\* what versionUtils_->onEgressBodySkip gives for a body offset: an error or
\* the stream offset the body offset maps to
SkipError == -1

\* skipBodyTo; enabled is isPartialReliabilityEnabled() and mapped the result
\* of onEgressBodySkip.  The HTTPException of a failed mapping carries no
\* proxygen error.
skipBodyTo(s, id, enabled, mapped) ==
  IF ~enabled THEN s
  ELSE IF mapped = SkipError THEN errorOnTransaction(s, id, "kErrorNone")
  ELSE LET t == trimPendingEgressBody(s.streams[id], mapped)
       IN [s EXCEPT !.streams[id].bytesSkipped = @ + t.trimBytes,
                    !.streams[id].writeBuf = t.writeBuf,
                    \* sock_->sendDataExpired
                    !.log.sockMisuse = @ \/ ~s.sock]

\* sendAbort -> sendAbortImpl; the transaction that aborts is done
sendAbort(s, id) ==
  abortEgress([abortStream(s, id, "HTTP_REQUEST_CANCELLED") EXCEPT
                 !.streams[id].txnDone = TRUE], id)


\* ------------------------------------------------------------------ reads
\* readRequestStream: data is one whole message of the peer, with the FIN,
\* or BlankRead when the transport has no byte and no FIN for the stream
BlankRead == "BLANK"

readRequestStream(s, id, data) ==
  IF id \notin DOMAIN s.streams \/ s.streams[id].detached THEN s
  ELSE IF data = BlankRead THEN [s EXCEPT !.log.serviced = @ + 1]
  ELSE [s EXCEPT !.log.serviced = @ + 1,
                 !.streams[id].readBuf = Append(@, data),
                 !.pendingProcessReadSet = @ \cup {id}]

\* a readAvailable that reads whatever the counter says
readAvailable_noLimit(s, id, data) ==
  scheduleLoopCallback(
    readRequestStream([s EXCEPT !.readsPerLoop = @ + 1], id, data))

readAvailable(s, id, data) ==
  IF s.readsPerLoop >= kMaxReadsPerLoop
  THEN [s EXCEPT !.log.skipped = TRUE]
  ELSE scheduleLoopCallback(
         readRequestStream([s EXCEPT !.readsPerLoop = @ + 1], id, data))

\* headersComplete that takes the close of the peer for the end of the
\* handshake in every state
H1QFBV1_headersComplete_done(s, close) ==
  IF close THEN [s EXCEPT !.drainState = "DONE"] ELSE s

H1QFBV1_headersComplete(s, close) ==
  IF s.drainState = "DONE" THEN s
  ELSE IF ~close THEN s
  ELSE IF s.drainState = "CLOSE_SENT" THEN [s EXCEPT !.drainState = "DONE"]
  ELSE [(IF s.drainState = "NONE" THEN drainImpl(s, "sent") ELSE s)
          EXCEPT !.drainState = "CLOSE_RECEIVED"]

HQ_headersComplete(s) ==
  IF /\ "QPACK_DECODER" \in DOMAIN s.controlStreams
     /\ s.controlStreams["QPACK_DECODER"].writeBuf # <<>>
  THEN scheduleWrite(s)
  ELSE s

headersComplete(s, close) ==
  IF s.version = "H1Q_FB_V1" THEN H1QFBV1_headersComplete(s, close)
  ELSE IF s.version = "HQ" THEN HQ_headersComplete(s)
  ELSE s

\* HQStreamTransportBase::processReadData, onHeadersComplete and onIngressEOF
streamProcessReadData(s, id) ==
  LET st == s.streams[id]
  IN IF st.ingressError THEN abortIngress(s, id)
     ELSE IF st.readBuf = <<>> THEN s
     ELSE IF Head(st.readBuf) = "MSG_BLOCKED" /\ st.blocked # "unblocked"
     THEN \* the codec parses no byte: the bytes stay in the read buffer
          [s EXCEPT !.streams[id].blocked = "blocked"]
     ELSE IF Head(st.readBuf) = "MSG_BLOCKED"
     THEN \* the headers are complete already, the rest of the message is read
          txnComplete([s EXCEPT !.streams[id].readBuf = <<>>,
                                !.streams[id].ingressHeaders = TRUE], id)
     ELSE txnComplete([headersComplete(s, Head(st.readBuf) = "MSG_CLOSE")
                         EXCEPT !.log.connClose =
                                    IF Head(st.readBuf) = "MSG_CLOSE"
                                    THEN @ \cup {"observed"} ELSE @,
                                !.streams[id].readBuf = <<>>,
                                !.streams[id].ingressHeaders = TRUE],
                      id)

\* onHeadersComplete that puts the stream into the read set and schedules
\* nothing
onHeadersComplete_noSchedule(s, id) ==
  Bind([headersComplete(s, FALSE) EXCEPT !.streams[id].blocked = "unblocked"],
       LAMBDA s1 :
         IF id \notin s1.pendingProcessReadSet /\ s1.streams[id].readBuf # <<>>
         THEN [s1 EXCEPT !.pendingProcessReadSet = @ \cup {id}]
         ELSE s1)

\* HQStreamTransportBase::onHeadersComplete of a stream whose header block
\* waited for the QPACK encoder stream: it runs when the data of that stream
\* is read, outside the processReadData of the stream itself
onHeadersComplete(s, id) ==
  Bind([headersComplete(s, FALSE) EXCEPT !.streams[id].blocked = "unblocked"],
       LAMBDA s1 :
         IF id \notin s1.pendingProcessReadSet /\ s1.streams[id].readBuf # <<>>
         THEN scheduleLoopCallback(
                [s1 EXCEPT !.pendingProcessReadSet = @ \cup {id}])
         ELSE s1)

processReadDataOne(s, id) ==
  LET s1 == [s EXCEPT !.pendingProcessReadSet = @ \ {id}]
  IN IF id \notin DOMAIN s1.streams THEN s1
     ELSE IF s1.streams[id].detached
          THEN [s1 EXCEPT !.streams[id].readBuf = <<>>]
          ELSE streamProcessReadData(s1, id)

processReadData(s) == FoldIds(processReadDataOne, s, s.pendingProcessReadSet)

\* ----------------------------------------------------------------- writes
\* what the transport was given before the SETTINGS frame was out whole
RECURSIVE wrote(_, _, _)
wrote(lg, who, bytes) ==
  IF bytes = <<>> THEN lg
  ELSE LET b == Head(bytes)
           lg1 == IF b = "SETTINGS"
                  THEN [lg EXCEPT !.settingsWritten = @ + 1]
                  ELSE IF lg.settingsWritten < SettingsLen /\ b # "PREFACE"
                       THEN [lg EXCEPT !.early = @ \cup {who}]
                       ELSE lg
       IN wrote(lg1, who, Tail(bytes))

\* one more step of the loop callback that is running
step(s, name) == [s EXCEPT !.log.steps = Append(@, name)]

\* what the transport answers when a control stream is written: no error,
\* or an error of some type from getStreamFlowControl or from writeChain
NoWriteError == [at |-> "none", kind |-> "none"]
ErrorKinds == {"app", "local", "localNoError", "transport"}
ControlWriteErrors ==
  [at : {"getStreamFlowControl", "writeChain"}, kind : ErrorKinds]
NoControlErrors == [t \in ControlTypes |-> NoWriteError]

\* controlStreamWriteImpl; window is sendWindowAvailable of the egress
\* stream, wr the answer of the transport
controlStreamWriteImpl(s, t, maxEgress, window, wr) ==
  LET cs == s.controlStreams[t]
      canSend == Min(window, maxEgress)
      sendLen == Min(canSend, Len(cs.writeBuf))
      tryWriteBuf == SubSeq(cs.writeBuf, 1, sendLen)
  IN IF wr.at = "getStreamFlowControl"
     THEN [sent |-> 0,
           s |-> handleSessionErrorControl(s, wr.kind, toProxygenError(wr.kind))]
     ELSE IF wr.at = "writeChain"
     THEN \* the bytes split off the buffer are gone with the failed write
          [sent |-> 0,
           s |-> handleSessionErrorControl(
                   [s EXCEPT !.controlStreams[t].writeBuf =
                        SubSeq(cs.writeBuf, sendLen + 1, Len(cs.writeBuf)),
                      !.log = step(s, "controlStreamWriteImpl").log,
                      !.log.sockMisuse = @ \/ ~s.sock],
                   wr.kind, "kErrorWrite")]
     ELSE
     [sent |-> sendLen,
      s |-> [s EXCEPT !.controlStreams[t].writeBuf =
                         SubSeq(cs.writeBuf, sendLen + 1, Len(cs.writeBuf)),
                      !.controlStreams[t].written = @ + sendLen,
                      !.log = step(s, "controlStreamWriteImpl").log,
                      !.log = wrote(@, t, tryWriteBuf),
                      !.log.sockMisuse = @ \/ ~s.sock]]

\* writeControlStreams over the container order; the result is the state
\* and the bytes sent
RECURSIVE writeControlStreamsFrom(_, _, _, _, _, _, _)
writeControlStreamsFrom(s, maxEgress, windows, order, i, total, cr) ==
  IF i > Len(order) THEN [sent |-> total, s |-> s]
  ELSE IF s.controlStreams[order[i]].writeBuf = <<>>
  THEN writeControlStreamsFrom(s, maxEgress, windows, order, i + 1, total, cr)
  ELSE Bind(controlStreamWriteImpl(s, order[i], maxEgress, windows[order[i]],
                                   cr[order[i]]),
            LAMBDA w :
              IF maxEgress - w.sent = 0
              THEN [sent |-> total + w.sent, s |-> w.s]
              ELSE writeControlStreamsFrom(w.s, maxEgress - w.sent, windows,
                                           order, i + 1, total + w.sent, cr))

writeControlStreams(s, maxEgress, windows, order, cr) ==
  writeControlStreamsFrom(s, maxEgress, windows, order, 1, 0, cr)

\* what sock_->writeChain does with the bytes of a request stream: it takes
\* them all, hands the last one back, hands all of them back, or fails
WriteOutcomes == {"all", "back1", "backAll", "error"}
\* a transport that enforces flow control takes what it is given
AcceptAll == {"all"}
\* getStreamFlowControl fails for the request stream that is to be written
FlowControlError == "flowControlError"

\* the errors a write can end with: an application error code of the peer
\* (most likely a STOP_SENDING), a local error of the transport
AppError(code) == [type |-> "app", code |-> code]
LocalError == [type |-> "local", code |-> "none"]
TransportError == [type |-> "transport", code |-> "none"]

\* handleWriteError: the proxygen error for the kind of error
writeErrorOf(err) ==
  IF err.type = "app"
  THEN IF err.code = "HTTP_REQUEST_REJECTED"
       THEN "kErrorStreamUnacknowledged"
       ELSE "kErrorStreamAbort"
  ELSE "kErrorWrite"

\* a write error that fails every transaction of the session
handleWriteError_allStreams(s, id, err) ==
  errorAllStreams(abortStream(s, id, "HTTP_REQUEST_CANCELLED"),
                  writeErrorOf(err))

handleWriteError(s, id, err) ==
  IF err.type = "transport"
  THEN [s EXCEPT !.log.checks = @ \cup {"handleWriteError: TransportErrorCode"}]
  ELSE errorOnTransaction(abortStream(s, id, "HTTP_REQUEST_CANCELLED"), id,
                          writeErrorOf(err))

\* writeBase: data was split off the write buffer; what the transport hands
\* back goes in front of what is left there
writeBase(s, id, data, wr) ==
  LET tryToSend == Len(data)
      back == IF wr = "backAll" THEN tryToSend
              ELSE IF wr = "back1" THEN Min(1, tryToSend)
              ELSE 0
      sent == tryToSend - back
  IN IF wr = "error"
     THEN [error |-> TRUE, sent |-> 0,
           s |-> [s EXCEPT !.log.sockMisuse = @ \/ ~s.sock]]
     ELSE [error |-> FALSE, sent |-> sent,
           s |-> [s EXCEPT
                    !.streams[id].wire = @ \o SubSeq(data, 1, sent),
                    !.streams[id].handedBack = @ + back,
                    !.streams[id].writeBuf =
                        SubSeq(data, sent + 1, tryToSend) \o @,
                    !.log.sockMisuse = @ \/ ~s.sock,
                    !.log.early =
                        IF s.log.settingsWritten < SettingsLen /\ sent > 0
                        THEN @ \cup {"REQUEST"}
                        ELSE @]]

\* handleWrite that counts the bytes it tried to send
handleWrite_tryToSend(s, id, data, sendEof, wr) ==
  Bind(writeBase(s, id, data, wr), LAMBDA w :
    IF w.error
    THEN [sent |-> 0, s |-> handleWriteError(w.s, id, LocalError)]
    ELSE [sent |-> w.sent,
          s |-> [w.s EXCEPT
                   !.streams[id].pendingByteEvents =
                       IF w.sent = Len(data) /\ sendEof THEN @ + 1 ELSE @,
                   !.streams[id].finCb =
                       IF w.sent = Len(data) /\ sendEof THEN "registered" ELSE @,
                   !.streams[id].pendingEOM =
                       IF w.sent = Len(data) /\ sendEof THEN FALSE ELSE @,
                   !.streams[id].bytesWritten = @ + Len(data)]])

\* handleWrite that takes the EOM for sent whatever the transport hands back
handleWrite_eofAlways(s, id, data, sendEof, wr) ==
  Bind(writeBase(step(s, "handleWrite"), id, data, wr), LAMBDA w :
    IF w.error
    THEN [sent |-> 0, s |-> handleWriteError(w.s, id, LocalError)]
    ELSE [sent |-> w.sent,
          s |-> [w.s EXCEPT
                   !.streams[id].pendingByteEvents =
                       IF sendEof THEN @ + 1 ELSE @,
                   !.streams[id].finCb =
                       IF sendEof THEN "registered" ELSE @,
                   !.streams[id].pendingEOM =
                       IF sendEof THEN FALSE ELSE @,
                   !.streams[id].bytesWritten = @ + w.sent]])

handleWrite(s, id, data, sendEof, wr) ==
  Bind(writeBase(step(s, "handleWrite"), id, data, wr), LAMBDA w :
    IF w.error
    THEN [sent |-> 0, s |-> handleWriteError(w.s, id, LocalError)]
    ELSE [sent |-> w.sent,
          s |-> [w.s EXCEPT
                   !.streams[id].pendingByteEvents =
                       IF w.sent = Len(data) /\ sendEof THEN @ + 1 ELSE @,
                   !.streams[id].finCb =
                       IF w.sent = Len(data) /\ sendEof THEN "registered" ELSE @,
                   !.streams[id].pendingEOM =
                       IF w.sent = Len(data) /\ sendEof THEN FALSE ELSE @,
                   !.streams[id].bytesWritten = @ + w.sent]])

\* what the transaction of a stream holds back for its next onWriteReady:
\* enqueued is queueHandle_.isTransactionEnqueued(), body the deferred body
\* bytes, eom whether an EOM is queued behind them, give the body bytes the
\* rate limiter lets the next onWriteReady detach
NoDeferred == [enqueued |-> FALSE, body |-> 0, eom |-> FALSE, give |-> 0]

hasPendingBody(st, txn) ==
  Len(st.writeBuf) # 0 \/ (txn.enqueued /\ txn.body > 0)

hasPendingEgressOf(st, txn) ==
  Len(st.writeBuf) > 0 \/ st.pendingEOM \/ txn.enqueued

\* hasPendingEgress of a stream whose transaction has nothing queued
hasPendingEgress(st) == hasPendingEgressOf(st, NoDeferred)

wantsOnWriteReady(st, txn, canSend) ==
  /\ txn.enqueued
  /\ \/ canSend > Len(st.writeBuf) /\ txn.body > 0
     \/ txn.body = 0 /\ txn.eom

\* txn_.onWriteReady(maxBodySend, ratio): the transaction hands the transport
\* the body bytes it may detach and, once none is left, its EOM; with
\* nothing more to send it leaves the egress queue
onWriteReady(s, id, txn, maxBodySend) ==
  LET n == Min(txn.give, Min(txn.body, maxBodySend))
      last == txn.body - n = 0 /\ txn.eom
      after == [enqueued |-> txn.body - n > 0 /\ n > 0,
                body |-> txn.body - n, eom |-> txn.eom /\ ~last,
                give |-> 0]
  IN [txn |-> after,
      s |-> IF n > 0 THEN sendBody(s, id, n, last)
            ELSE IF last THEN sendEOM(s, id)
            ELSE s]

\* requestStreamWriteImpl for a transaction that holds txn back; window is
\* sendWindowAvailable of the stream and wr what the transport does with the
\* write.  The result tells what was asked of the transport as well.
requestStreamWriteOf(s, id, maxEgress, window, wr, txn) ==
  LET canSend == Min(window, maxEgress)
      wants == wantsOnWriteReady(s.streams[id], txn, canSend)
      r == IF wants
           THEN onWriteReady(s, id, txn,
                             canSend - Len(s.streams[id].writeBuf))
           ELSE [txn |-> txn, s |-> s]
      st == r.s.streams[id]
      sendLen == Min(canSend, Len(st.writeBuf))
      tryWriteBuf == SubSeq(st.writeBuf, 1, sendLen)
      rest == SubSeq(st.writeBuf, sendLen + 1, Len(st.writeBuf))
      sendEof == st.pendingEOM /\ ~hasPendingBody([st EXCEPT !.writeBuf = rest],
                                                  r.txn)
      none == [sent |-> 0, txn |-> r.txn, written |-> FALSE,
               sendLen |-> 0, sendEof |-> FALSE]
  IN IF ~s.streams[id].enqueued
     THEN [none EXCEPT !.txn = txn] @@
          [s |-> [s EXCEPT !.log.checks = @ \cup {"isStreamTransportEnqueued"}]]
     ELSE IF wr = FlowControlError
     THEN [none EXCEPT !.txn = txn] @@
          [s |-> handleWriteError(s, id, LocalError)]
     ELSE IF wants /\ st.writeBuf = <<>> /\ ~st.pendingEOM
     THEN none @@ [s |-> r.s]
     ELSE IF ~(sendLen > 0 \/ sendEof)
     THEN none @@
          [s |-> [r.s EXCEPT !.log.checks = @ \cup {"sendLen > 0 || sendEof"}]]
     ELSE Bind(handleWrite([r.s EXCEPT !.streams[id].writeBuf = rest],
                           id, tryWriteBuf, sendEof, wr),
               LAMBDA w :
                 [sent |-> w.sent, txn |-> r.txn, written |-> TRUE,
                  sendLen |-> sendLen, sendEof |-> sendEof,
                  s |-> IF /\ w.s.streams[id].enqueued
                           /\ \/ ~hasPendingEgressOf(w.s.streams[id], r.txn)
                              \/ (w.sent = window /\ ~sendEof)
                        THEN [w.s EXCEPT !.streams[id].enqueued = FALSE]
                        ELSE w.s])

\* requestStreamWriteImpl of a stream whose transaction has handed all it
\* has to the transport
requestStreamWriteImpl(s, id, maxEgress, window, wr) ==
  requestStreamWriteOf(s, id, maxEgress, window, wr, NoDeferred)

\* writeRequestStreams over the result of nextEgress; the result is the
\* state and the budget left
RECURSIVE writeRequestStreamsFrom(_, _, _, _, _, _)
writeRequestStreamsFrom(s, maxEgress, windows, order, wo, i) ==
  IF i > Len(order) THEN [left |-> maxEgress, s |-> s]
  ELSE Bind(requestStreamWriteImpl(s, order[i], maxEgress, windows[order[i]],
                                   wo[order[i]]),
            LAMBDA w :
              IF maxEgress - w.sent = 0 /\ i < Len(order)
              THEN [left |-> 0, s |-> w.s]
              ELSE writeRequestStreamsFrom(w.s, maxEgress - w.sent, windows,
                                           order, wo, i + 1))

writeRequestStreams(s, maxEgress, windows, order, wo) ==
  writeRequestStreamsFrom(s, maxEgress, windows, order, wo, 1)

txnEgressQueue(s) == {i \in DOMAIN s.streams : s.streams[i].enqueued}

\* ------------------------------------------------------ the loop callback
\* cw, co: flow control windows and container order of the control streams;
\* sw, so: windows of the request streams and the order nextEgress gives;
\* wo: what the transport does with the write of each request stream
\* HQVersionUtils::readDataProcessed; ici tells whether
\* qpackCodec_.encodeInsertCountInc() has something to send.  The other
\* versions keep the empty hook of the base class.
readDataProcessed(s, ici) ==
  IF s.version # "HQ" \/ ~ici THEN s
  ELSE IF "QPACK_DECODER" \notin DOMAIN s.controlStreams
       THEN [s EXCEPT !.log.checks = @ \cup {"QPACKDecoderStream"}]
       ELSE [s EXCEPT !.controlStreams["QPACK_DECODER"].writeBuf =
                         Append(@, "ICI"),
                      !.log.icis = @ + 1]

\* runLoopCallback from readsPerLoop_ = 0 to the reads and the hook
runLoopCallbackReads(s, ici) ==
  Bind(step(processReadData(
              [s EXCEPT !.readsPerLoop = 0,
                        !.log.checks =
                 IF s.versionUtils THEN @ ELSE @ \cup {"versionUtils_"}]),
            "processReadData"),
       LAMBDA s1 : step(readDataProcessed(s1, ici), "readDataProcessed"))

\* the writes of a loop callback that gives the request streams the whole
\* budget again
runLoopCallbackWrites_fullBudget(s, cw, co, sw, so, wo, cr) ==
  Bind(step(writeControlStreams(s, s.maxToSend, cw, co, cr).s,
            "writeControlStreams"),
       LAMBDA s2 :
         IF txnEgressQueue(s2) # {} /\ s2.maxToSend > 0
         THEN step(writeRequestStreams(s2, s2.maxToSend, sw, so, wo).s,
                   "writeRequestStreams")
         ELSE s2)

\* the writes of a loop callback that writes the request streams first
runLoopCallbackWrites_requestsFirst(s, cw, co, sw, so, wo, cr) ==
  Bind(IF txnEgressQueue(s) # {} /\ s.maxToSend > 0
       THEN Bind(writeRequestStreams(s, s.maxToSend, sw, so, wo), LAMBDA r :
              step([r.s EXCEPT !.maxToSend = r.left], "writeRequestStreams"))
       ELSE s,
       LAMBDA s2 :
         step(writeControlStreams(s2, s2.maxToSend, cw, co, cr).s,
              "writeControlStreams"))

\* runLoopCallback from the control-stream writes to the request-stream
\* writes
runLoopCallbackWrites(s, cw, co, sw, so, wo, cr) ==
  Bind(writeControlStreams(s, s.maxToSend, cw, co, cr), LAMBDA c :
  Bind(step([c.s EXCEPT !.maxToSend = @ - c.sent], "writeControlStreams"),
       LAMBDA s2 :
         IF txnEgressQueue(s2) # {} /\ s2.maxToSend > 0
         THEN step(writeRequestStreams(s2, s2.maxToSend, sw, so, wo).s,
                   "writeRequestStreams")
         ELSE s2))

\* runLoopCallback after the writes, up to the scope guard
runLoopCallbackRest(s) ==
  Bind(IF txnEgressQueue(s) # {}
       THEN scheduleWrite([s EXCEPT !.maxToSend = 0])
       ELSE [s EXCEPT !.maxToSend = 0],
       LAMBDA s5 :
         IF s5.pendingProcessReadSet # {}
         THEN scheduleLoopCallback(s5)
         ELSE s5)

runLoopCallback(s, cw, co, sw, so, wo, ici, cr) ==
  LET s0 == [s EXCEPT !.loopScheduled = FALSE, !.log.steps = <<>>,
                      !.log.serviced = 0, !.log.skipped = FALSE]
  IN \* the scope guard runs checkForShutdown on every way out
     step(checkForShutdown(
            IF s0.dropInNextLoop # NoDrop
            THEN step(dropConnectionSync(s0, s0.dropInNextLoop.code,
                                         s0.dropInNextLoop.perr),
                      "dropConnectionSync")
            ELSE runLoopCallbackRest(
                   runLoopCallbackWrites(runLoopCallbackReads(s0, ici),
                                         cw, co, sw, so, wo, cr))),
          "checkForShutdown")


onConnectionWriteReady(s, n) ==
  scheduleLoopCallback([s EXCEPT !.scheduledWrite = FALSE, !.maxToSend = n])

\* HQSession::onDeliveryAck for the FIN of a request stream
onDeliveryAck(s, id) ==
  IF id \in DOMAIN s.streams
  THEN maybeDetach([s EXCEPT !.streams[id].pendingByteEvents = @ - 1,
                             !.streams[id].finCb = "acked",
                             !.streams[id].byteEvents =
                                 Append(@, "onEgressLastByteAck")], id)
  ELSE s

\* HQControlStream::onDeliveryAck
ControlOnDeliveryAck(s, gw) == onGoawayAck(s, gw)

\* findControlStream(id): the control stream that uses the stream id
usesStream(s, id) ==
  \E t \in DOMAIN s.controlStreams :
     id \in {s.controlStreams[t].egressId, s.controlStreams[t].ingressId}

\* onFlowControlUpdate; hasError and window are what getStreamFlowControl
\* gives for the stream
onFlowControlUpdate(s, id, hasError, window) ==
  IF hasError THEN [s EXCEPT !.log.sockMisuse = @ \/ ~s.sock]
  ELSE IF usesStream(s, id) /\ window > 0 THEN scheduleWrite(s)
  ELSE IF id \notin DOMAIN s.streams \/ s.streams[id].detached THEN s
  ELSE IF \/ window > 0
          \/ (s.streams[id].writeBuf = <<>> /\ s.streams[id].pendingEOM)
       THEN scheduleWrite(IF hasPendingEgress(s.streams[id])
                          THEN [s EXCEPT !.streams[id].enqueued = TRUE]
                          ELSE s)
       ELSE s

\* ------------------------------------------------- resets of the peer
\* the application error codes a peer resets or stops a stream with
ResetCodes ==
  {"HTTP_NO_ERROR", "HTTP_REQUEST_REJECTED", "HTTP_REQUEST_CANCELLED",
   "GIVEUP_ZERO_RTT"}

\* txn_.isIngressStarted(): the headers of the peer's message were delivered
isIngressStarted(st) == st.ingressHeaders

sendAbortImpl(s, id, code) == abortEgress(abortStream(s, id, code), id)

\* onResetStream of a server that answers every reset with REQUEST_REJECTED
onResetStream_rejected(s, id, errorCode) ==
  LET replyError ==
        IF s.direction = "UPSTREAM" THEN "HTTP_REQUEST_CANCELLED"
        ELSE "HTTP_REQUEST_REJECTED"
      byCode == IF errorCode = "HTTP_REQUEST_REJECTED"
                THEN "kErrorStreamUnacknowledged"
                ELSE "kErrorStreamAbort"
      proxygenError == IF errorCode = "GIVEUP_ZERO_RTT"
                       THEN "kErrorEarlyDataFailed"
                       ELSE byCode
  IN sendAbortImpl(errorOnTransaction(s, id, proxygenError), id, replyError)

\* onResetStream without the case of GIVEUP_ZERO_RTT
onResetStream_noEarlyData(s, id, errorCode) ==
  LET replyError ==
        IF s.direction = "UPSTREAM" THEN "HTTP_REQUEST_CANCELLED"
        ELSE IF ~isIngressStarted(s.streams[id]) THEN "HTTP_REQUEST_REJECTED"
        ELSE "HTTP_NO_ERROR"
      byCode == IF errorCode = "HTTP_REQUEST_REJECTED"
                THEN "kErrorStreamUnacknowledged"
                ELSE "kErrorStreamAbort"
  IN sendAbortImpl(errorOnTransaction(s, id, byCode), id, replyError)

\* HQStreamTransportBase::onResetStream
onResetStream(s, id, errorCode) ==
  LET replyError ==
        IF s.direction = "UPSTREAM" THEN "HTTP_REQUEST_CANCELLED"
        ELSE IF ~isIngressStarted(s.streams[id]) THEN "HTTP_REQUEST_REJECTED"
        ELSE "HTTP_NO_ERROR"
      byCode == IF errorCode = "HTTP_REQUEST_REJECTED"
                THEN "kErrorStreamUnacknowledged"
                ELSE "kErrorStreamAbort"
      proxygenError == IF errorCode = "GIVEUP_ZERO_RTT"
                       THEN "kErrorEarlyDataFailed"
                       ELSE byCode
  IN sendAbortImpl(errorOnTransaction(s, id, proxygenError), id, replyError)

errorOnTransactionId(s, id, err) ==
  IF id \in DOMAIN s.streams THEN errorOnTransaction(s, id, err) ELSE s

\* readError on a request stream
readError(s, id, err) ==
  IF err.type = "app"
  THEN IF id \in DOMAIN s.streams /\ ~s.streams[id].detached
       THEN onResetStream(s, id, err.code)
       ELSE s
  ELSE IF err.type = "local"
  THEN errorOnTransactionId(s, id, IF err.code = "CONNECT_FAILED"
                                   THEN "kErrorConnect"
                                   ELSE "kErrorShutdown")
  ELSE errorOnTransactionId(s, id, "kErrorConnectionReset")

\* no connection error comes from the transport inside a call of the socket
NoConnError == "none"

\* onStopSending; connError is the connection error the transport reports
\* to its connection callback from inside the resetStream of abortStream
\* when it closes the connection there, or NoConnError
onStopSending(s, id, code, connError) ==
  LET s1 == [s EXCEPT !.isInOnStopSending = TRUE]
      s2 == IF id \notin DOMAIN s.streams THEN s1
            ELSE Bind(abortStream(s1, id, "HTTP_REQUEST_CANCELLED"), LAMBDA a :
                   errorOnTransaction(
                     IF connError = NoConnError THEN a
                     ELSE onConnectionError(a, connError),
                     id, writeErrorOf(AppError(code))))
  IN [s2 EXCEPT !.isInOnStopSending = FALSE]


\* ================================================================ actions
\* one ALPN of each protocol version
MainAlpns == {"h1q-fb", "h1q-fb-v2", "h3-27"}

InitWith(directions, alpns) ==
  /\ direction \in directions
  /\ alpn \in alpns
  /\ version = "NONE"
  /\ versionUtils = FALSE
  /\ setup = "none"
  /\ sock = TRUE
  /\ drainState = "NONE"
  /\ dropping = FALSE
  /\ dropInNextLoop = NoDrop
  /\ loopScheduled = FALSE
  /\ scheduledWrite = FALSE
  /\ maxToSend = 0
  /\ maxIncomingStreamId = 0
  /\ maxAllowedStreamId = kEightByteLimit
  /\ streams = << >>
  /\ controlStreams = << >>
  /\ pendingUni = {}
  /\ readCb = {}
  /\ peekCb = {}
  /\ pendingProcessReadSet = {}
  /\ readsPerLoop = 0
  /\ numLocalBidi = 0
  /\ numLocalUni = 0
  /\ announced = {}
  /\ log = InitLog

Directions == {"UPSTREAM", "DOWNSTREAM"}

Init == InitWith(Directions, MainAlpns)

\* the callback is over: the outermost destructor guard is released and a
\* pending destroy() deletes the session.  Of a deleted session only what it
\* was at its end is kept: the drain state, the socket, the streams and the
\* history; the transport forgets its callbacks and its streams.  The same
\* holds for a process that a failed CHECK has aborted.
Apply(n) ==
  LET gone == n.log.destroyCalls > 0 \/ n.log.checks # {} \/ n.log.sockMisuse
  IN
  /\ direction' = n.direction
  /\ alpn' = n.alpn
  /\ version' = n.version
  /\ versionUtils' = n.versionUtils
  /\ setup' = n.setup
  /\ sock' = n.sock
  /\ drainState' = n.drainState
  /\ dropping' = n.dropping
  /\ dropInNextLoop' = n.dropInNextLoop
  /\ loopScheduled' = (n.loopScheduled /\ ~gone)
  /\ scheduledWrite' = (n.scheduledWrite /\ ~gone)
  /\ maxToSend' = IF gone THEN 0 ELSE n.maxToSend
  /\ maxIncomingStreamId' = n.maxIncomingStreamId
  /\ maxAllowedStreamId' = n.maxAllowedStreamId
  /\ streams' = n.streams
  /\ controlStreams' = IF gone THEN << >> ELSE n.controlStreams
  /\ pendingUni' = IF gone THEN {} ELSE n.pendingUni
  /\ readCb' = IF gone THEN {} ELSE n.readCb
  /\ peekCb' = IF gone THEN {} ELSE n.peekCb
  /\ pendingProcessReadSet' = IF gone THEN {} ELSE n.pendingProcessReadSet
  /\ readsPerLoop' = IF gone THEN 0 ELSE n.readsPerLoop
  /\ numLocalBidi' = IF gone THEN 0 ELSE n.numLocalBidi
  /\ numLocalUni' = IF gone THEN 0 ELSE n.numLocalUni
  /\ announced' = IF gone THEN {} ELSE n.announced
  /\ log' = [n.log EXCEPT !.destroyed = n.log.destroyCalls > 0,
                          !.steps = <<>>, !.cleared = <<>>]

\* the session object exists and the process has not aborted
Alive == ~log.destroyed /\ log.checks = {} /\ ~log.sockMisuse

Ready == Alive /\ setup = "ok"

CanOpenStream == Cardinality(announced) + numLocalBidi < MaxStreams

Perms(S) ==
  {f \in [1 .. Cardinality(S) -> S] : \A i, j \in 1 .. Cardinality(S) :
                                         f[i] = f[j] => i = j}

\* --- the transport
OnTransportReady ==
  /\ Alive /\ setup = "none"
  /\ \E failAt \in 0 .. 3, gw \in GoawayOutcomes :
       Apply(onTransportReadyCommon(Self, failAt, gw))

OnConnectionError ==
  /\ Alive
  /\ Apply(onConnectionError(Self, "PEER_CLOSE"))

OnNewBidirectionalStream ==
  /\ Ready
  /\ \E id \in PeerBidiIds(direction) \ announced :
       Apply(onNewBidirectionalStream([Self EXCEPT !.announced = @ \cup {id}], id))

OnNewUnidirectionalStream ==
  /\ Ready
  /\ \E id \in PeerUniIds(direction) \ announced :
       Apply(onNewUnidirectionalStream([Self EXCEPT !.announced = @ \cup {id}], id))

\* the dispatcher's peek callback sees the whole preface of a pending stream
OnPeekDataAvailableOf(prefaces) ==
  /\ Ready
  /\ \E id \in pendingUni \cap peekCb, preface \in Prefaces \cap prefaces :
       Apply(onPrefaceDecoded(Self, id, preface))

OnPeekDataAvailable == OnPeekDataAvailableOf(Prefaces)

\* a read error on the ingress side of a control stream; the transport drops
\* the read callback of a stream it has reported an error for
OnControlStreamReadError ==
  /\ Ready
  /\ \E t \in DOMAIN controlStreams, kind \in {"app", "local", "localNoError", "transport"} :
       /\ controlStreams[t].ingressId \in readCb
       /\ Apply(controlStreamReadError(
                  [Self EXCEPT !.readCb = @ \ {controlStreams[t].ingressId}],
                  controlStreams[t].ingressId, kind))

\* the peer's message on a request stream: a request downstream, the
\* response to a request that was sent upstream
OnReadAvailableOf(datas) ==
  /\ Ready
  /\ \E id \in readCb \cap DOMAIN streams, data \in datas :
       /\ ~streams[id].detached
       /\ ~streams[id].ingressHeaders
       /\ ~streams[id].ingressError
       /\ streams[id].readBuf = <<>>
       /\ direction = "UPSTREAM" => streams[id].egressHeaders
       /\ data = "MSG_CLOSE" => version = "H1Q_FB_V1"
       /\ Apply(readAvailable(Self, id, data))

OnReadAvailable == OnReadAvailableOf({"MSG", "MSG_CLOSE"})

\* data of the peer's QPACK encoder stream is read and unblocks the header
\* blocks that waited for it
OnEncoderStreamData ==
  /\ Ready
  /\ version = "HQ"
  /\ "QPACK_ENCODER" \in DOMAIN controlStreams
  /\ controlStreams["QPACK_ENCODER"].ingressCodec
  /\ \E ids \in SUBSET {i \in DOMAIN streams : streams[i].blocked = "blocked"} :
       /\ ids # {}
       /\ \A i \in ids : ~streams[i].detached
       /\ Apply(FoldIds(onHeadersComplete, Self, ids))

\* the peer's GOAWAY frame, parsed by the codec of the control stream
OnGoaway ==
  /\ Ready
  /\ direction = "UPSTREAM"
  /\ version # "H1Q_FB_V1"
  /\ controlStreams[ConnControlType(Self)].ingressCodec
  /\ log.goawayRecv < NumGoaways
  /\ \E lastGood \in {kEightByteLimit} \cup
                     {LocalBidiId(direction, n) : n \in 0 .. NumLocalBidi - 1} :
       Apply(onGoaway(Self, lastGood))

OnConnectionWriteReady ==
  /\ Ready
  /\ scheduledWrite
  /\ \E n \in 1 .. MaxToSend : Apply(onConnectionWriteReady(Self, n))

\* the delivery callback of a GOAWAY: every byte below the registered offset
\* was handed to the transport and the peer acknowledged them
OnControlDeliveryAck ==
  /\ Ready
  /\ \E t \in DOMAIN controlStreams, gw \in GoawayOutcomes :
       /\ controlStreams[t].deliveryCbs # <<>>
       /\ controlStreams[t].written >= Head(controlStreams[t].deliveryCbs)
       /\ Apply(ControlOnDeliveryAck(
                  [Self EXCEPT !.controlStreams[t].deliveryCbs = Tail(@)], gw))

\* the transport gives up on the delivery callbacks of a control stream
OnControlDeliveryCanceled ==
  /\ Ready
  /\ \E t \in DOMAIN controlStreams :
       /\ controlStreams[t].deliveryCbs # <<>>
       /\ Apply(ControlOnCanceled(
                  [Self EXCEPT !.controlStreams[t].deliveryCbs = <<>>]))

OnDeliveryAck ==
  /\ Ready
  /\ \E id \in DOMAIN streams :
       /\ streams[id].pendingByteEvents > 0
       /\ Apply(onDeliveryAck(Self, id))

\* the transport gives up on the delivery callback of a FIN
OnDeliveryCanceled ==
  /\ Ready
  /\ \E id \in DOMAIN streams :
       /\ streams[id].finCb = "registered"
       /\ Apply(StreamOnCanceled(Self, id))

OnFlowControlUpdate ==
  /\ Ready
  /\ \E id \in DOMAIN streams, hasError \in BOOLEAN, window \in 0 .. MaxWindow :
       /\ hasError => window = 0
       /\ Apply(onFlowControlUpdate(Self, id, hasError, window))

\* the errors readError is given: a reset of the peer, a local error
ReadErrors ==
  {AppError(c) : c \in ResetCodes} \cup
  {LocalError, [type |-> "local", code |-> "CONNECT_FAILED"], TransportError}

\* the transport drops the read callback of a stream it has reported an
\* error for
OnReadError ==
  /\ Ready
  /\ \E id \in readCb \cap DOMAIN streams, err \in ReadErrors :
       Apply(readError([Self EXCEPT !.readCb = @ \ {id}], id, err))

\* one STOP_SENDING for a stream
OnStopSendingOn(connErrors) ==
  /\ Ready
  /\ \E id \in DOMAIN streams, code \in ResetCodes, connError \in connErrors :
       /\ id \notin log.stopped
       /\ Apply(onStopSending([Self EXCEPT !.log.stopped = @ \cup {id}],
                              id, code, connError))

OnStopSending == OnStopSendingOn({NoConnError})

\* --- the event loop
\* the windows and orders that make a difference: nothing is written with
\* a budget of 0, and a stream with an empty buffer is skipped
WindowChoices == IF maxToSend = 0 THEN {0} ELSE 0 .. MaxWindow
OrderChoices(S) ==
  IF maxToSend = 0 THEN {CHOOSE f \in Perms(S) : TRUE} ELSE Perms(S)

ctrlWriters(s) ==
  {t \in DOMAIN s.controlStreams : s.controlStreams[t].writeBuf # <<>>}

\* the streams the loop finds with something to write once it has processed
\* the reads
loopAfterReads(ici) ==
  IF dropInNextLoop # NoDrop THEN Self ELSE runLoopCallbackReads(Self, ici)
loopControlWriters(ici) == ctrlWriters(loopAfterReads(ici))
loopEgressQueue == txnEgressQueue(loopAfterReads(FALSE))

\* whether the QPACK codec has an insert count increment to send
IciChoices(icis) ==
  IF /\ version = "HQ"
     /\ "QPACK_DECODER" \in DOMAIN controlStreams
     /\ dropInNextLoop = NoDrop
     /\ log.icis < MaxInsertCountIncs
  THEN icis ELSE {FALSE}

\* the loop callback on a transport whose writeChain does one of outcomes
\* for a request stream, whose streams have one of windows to send in and
\* which fails the write of a control stream with one of errors, with a
\* QPACK codec whose encodeInsertCountInc gives one of icis
RunLoopCallbackIn(outcomes, icis, windows, errors) ==
  /\ Alive
  /\ loopScheduled
  /\ \E ici \in IciChoices(icis) :
     \E cw \in [loopControlWriters(ici) -> WindowChoices \cap windows],
        co \in OrderChoices(loopControlWriters(ici)),
        sw \in [loopEgressQueue -> WindowChoices \cap windows],
        so \in OrderChoices(loopEgressQueue),
        wo \in [loopEgressQueue -> IF maxToSend = 0 THEN AcceptAll ELSE outcomes],
        cr \in [loopControlWriters(ici) -> {NoWriteError} \cup errors] :
       /\ \A id \in loopEgressQueue :
             wo[id] \in {"back1", "backAll"} =>
                streams[id].handedBack < MaxHandedBack
       /\ Apply(runLoopCallback(Self, cw, co, sw, so, wo, ici, cr))

RunLoopCallbackWith(outcomes, icis) ==
  RunLoopCallbackIn(outcomes, icis, 0 .. MaxWindow, {})

RunLoopCallbackOn(outcomes) == RunLoopCallbackWith(outcomes, {FALSE})

RunLoopCallback == RunLoopCallbackOn(AcceptAll)

TimeoutExpired ==
  /\ Alive
  /\ \E gw \in GoawayOutcomes : Apply(timeoutExpired(Self, gw))

\* --- the application
NotifyPendingShutdown ==
  /\ Alive
  /\ \E gw \in GoawayOutcomes : Apply(notifyPendingShutdown(Self, gw))

CloseWhenIdle ==
  /\ Alive
  /\ \E gw \in GoawayOutcomes : Apply(closeWhenIdle(Self, gw))

DropConnection ==
  /\ Alive
  /\ Apply(dropConnection(Self))

NewTransaction ==
  /\ Ready
  /\ direction = "UPSTREAM"
  /\ \E created \in BOOLEAN :
       /\ created => numLocalBidi < NumLocalBidi
       /\ Apply(newTransaction(Self, created))

SendHeaders ==
  /\ Ready
  /\ \E id \in DOMAIN streams, wantsKeepalive \in BOOLEAN,
        includeEOM \in BOOLEAN, gw \in GoawayOutcomes :
       /\ ~streams[id].detached
       /\ ~streams[id].txnDone
       /\ ~streams[id].egressHeaders
       /\ direction = "DOWNSTREAM" => streams[id].ingressHeaders
       /\ ~wantsKeepalive => version = "H1Q_FB_V1"
       /\ Apply(sendHeaders(Self, id, wantsKeepalive, includeEOM, gw))

SendEOM ==
  /\ Ready
  /\ \E id \in DOMAIN streams :
       /\ ~streams[id].detached
       /\ ~streams[id].txnDone
       /\ streams[id].egressHeaders
       /\ ~streams[id].egressEOM
       /\ Apply(sendEOM(Self, id))

SendBody ==
  /\ Ready
  /\ \E id \in DOMAIN streams, n \in 1 .. BodyLen, includeEOM \in BOOLEAN :
       /\ ~streams[id].detached
       /\ ~streams[id].txnDone
       /\ streams[id].egressHeaders
       /\ ~streams[id].egressEOM
       /\ streamWriteByteOffset(streams[id]) + n <= HeadersLen + BodyLen
       /\ Apply(sendBody(Self, id, n, includeEOM))

\* the largest stream offset a skip is asked for
MaxSkipOffset == HeadersLen + BodyLen + 1

\* the transaction skips its body up to an offset
SkipBodyTo ==
  /\ Ready
  /\ \E id \in DOMAIN streams, enabled \in BOOLEAN,
        mapped \in {SkipError} \cup (0 .. MaxSkipOffset) :
       /\ ~streams[id].detached
       /\ ~streams[id].txnDone
       /\ streams[id].egressHeaders
       /\ ~streams[id].egressEOM
       /\ Apply(skipBodyTo(Self, id, enabled, mapped))

SendAbort ==
  /\ Ready
  /\ \E id \in DOMAIN streams :
       /\ ~streams[id].detached
       /\ ~streams[id].txnDone
       /\ Apply(sendAbort(Self, id))

\* ------------------------------------------------------- specifications
\* every handler, on a connection with at most MaxStreams streams
Next ==
  \/ OnTransportReady
  \/ OnConnectionError
  \/ (CanOpenStream /\ OnNewBidirectionalStream)
  \/ (CanOpenStream /\ OnNewUnidirectionalStream)
  \/ OnPeekDataAvailable
  \/ OnControlStreamReadError
  \/ OnReadAvailable
  \/ OnGoaway
  \/ OnConnectionWriteReady
  \/ OnControlDeliveryAck
  \/ OnControlDeliveryCanceled
  \/ OnDeliveryAck
  \/ RunLoopCallback
  \/ TimeoutExpired
  \/ NotifyPendingShutdown
  \/ CloseWhenIdle
  \/ DropConnection
  \/ (CanOpenStream /\ NewTransaction)
  \/ SendHeaders
  \/ SendEOM
  \/ SendAbort

Spec == Init /\ [][Next]_vars

\* transport-ready with every ALPN string, and what follows it without streams
InitSetup == InitWith(Directions, Alpns)

NextSetup ==
  \/ OnTransportReady
  \/ NotifyPendingShutdown
  \/ OnConnectionWriteReady
  \/ OnControlDeliveryAck
  \/ RunLoopCallback
  \/ TimeoutExpired
  \/ DropConnection

SpecSetup == InitSetup /\ [][NextSetup]_vars

\* a server and the requests of its peer, on the profiles with one control
\* stream at most
InitDown == InitWith({"DOWNSTREAM"}, {"h1q-fb", "h1q-fb-v2"})

NextDown ==
  \/ OnTransportReady
  \/ (Cardinality(announced) < MaxRequests /\ OnNewBidirectionalStream)
  \/ OnReadAvailable
  \/ SendHeaders
  \/ OnConnectionWriteReady
  \/ RunLoopCallback
  \/ OnDeliveryAck
  \/ NotifyPendingShutdown
  \/ OnControlDeliveryAck
  \/ SendEOM
  \/ SendAbort
  \/ DropConnection

SpecDown == InitDown /\ [][NextDown]_vars

\* a client of the framed profile with one control stream, its requests and
\* the control stream of its peer
InitUp == InitWith({"UPSTREAM"}, {"h1q-fb-v2"})

NextUp ==
  \/ OnTransportReady
  \/ (announced = {} /\ OnNewUnidirectionalStream)
  \/ OnPeekDataAvailable
  \/ NewTransaction
  \/ SendHeaders
  \/ OnConnectionWriteReady
  \/ RunLoopCallback
  \/ OnGoaway
  \/ NotifyPendingShutdown

SpecUp == InitUp /\ [][NextUp]_vars

\* the unidirectional streams of the peer on a framed profile
InitUni == InitWith(Directions, {"h1q-fb-v2", "h3-27"})

NextUni ==
  \/ OnTransportReady
  \/ OnNewUnidirectionalStream
  \/ OnPeekDataAvailable
  \/ OnControlStreamReadError
  \/ OnConnectionWriteReady
  \/ RunLoopCallback
  \/ DropConnection

SpecUni == InitUni /\ [][NextUni]_vars

\* a server that answers one request of its peer over a transport whose
\* writeChain may hand bytes back or fail, with the flow control updates and
\* the delivery callbacks of the transport
InitWrite == InitWith({"DOWNSTREAM"}, {"h1q-fb-v2"})

NextWrite ==
  \/ OnTransportReady
  \/ (announced = {} /\ OnNewBidirectionalStream)
  \/ OnReadAvailable
  \/ SendHeaders
  \/ SendBody
  \/ SendEOM
  \/ OnConnectionWriteReady
  \/ RunLoopCallbackOn(WriteOutcomes)
  \/ OnFlowControlUpdate
  \/ OnDeliveryAck
  \/ OnDeliveryCanceled

SpecWrite == InitWrite /\ [][NextWrite]_vars

\* a client and a server with one request stream whose peer resets it, stops
\* it or lets its reads fail
InitReset == InitWith(Directions, {"h1q-fb-v2"})

NextReset ==
  \/ OnTransportReady
  \/ (announced = {} /\ OnNewBidirectionalStream)
  \/ (numLocalBidi = 0 /\ NewTransaction)
  \/ OnReadAvailable
  \/ SendHeaders
  \/ OnConnectionWriteReady
  \/ RunLoopCallback
  \/ OnReadError
  \/ OnStopSending
  \/ OnDeliveryAck

SpecReset == InitReset /\ [][NextReset]_vars

\* An HTTP/3 client with one request, its control streams and a QPACK codec
\* that may have an insert count increment to send, on a transport with
\* open windows.
InitLoop == InitWith({"UPSTREAM"}, {"h3-27"})

NextLoop ==
  \/ OnTransportReady
  \/ (numLocalBidi = 0 /\ NewTransaction)
  \/ (announced \cap PeerUniIds(direction) = {} /\ OnNewUnidirectionalStream)
  \/ OnPeekDataAvailable
  \/ OnControlStreamReadError
  \/ OnReadAvailable
  \/ SendHeaders
  \/ OnConnectionWriteReady
  \/ RunLoopCallbackIn(AcceptAll, BOOLEAN, {0, MaxWindow}, {})

SpecLoop == InitLoop /\ [][NextLoop]_vars

\* A server whose transport reports more read events than the session
\* services between two runs of the loop callback; some of them find
\* nothing to read.
InitRead == InitWith({"DOWNSTREAM"}, {"h1q-fb-v2"})

NextRead ==
  \/ OnTransportReady
  \/ (Cardinality(announced) < MaxRequests /\ OnNewBidirectionalStream)
  \/ OnReadAvailableOf({"MSG", BlankRead})
  \/ RunLoopCallback

SpecRead == InitRead /\ [][NextRead]_vars

\* A session whose transport can close the connection inside the resetStream
\* the session calls from onStopSending.
InitStop == InitWith(Directions, {"h1q-fb-v2"})

NextStop ==
  \/ OnTransportReady
  \/ (announced = {} /\ OnNewBidirectionalStream)
  \/ (numLocalBidi = 0 /\ NewTransaction)
  \/ OnReadAvailable
  \/ SendHeaders
  \/ OnConnectionWriteReady
  \/ RunLoopCallback
  \/ OnStopSendingOn({NoConnError, "PEER_CLOSE"})

SpecStop == InitStop /\ [][NextStop]_vars

\* A session with framed HTTP/1 whose control stream can fail when it is
\* read and when it is written.
InitCtl == InitWith(Directions, {"h1q-fb-v2"})

NextCtl ==
  \/ OnTransportReady
  \/ OnNewUnidirectionalStream
  \/ OnPeekDataAvailable
  \/ OnControlStreamReadError
  \/ OnConnectionWriteReady
  \/ RunLoopCallbackIn(AcceptAll, {FALSE}, 0 .. MaxWindow, ControlWriteErrors)

SpecCtl == InitCtl /\ [][NextCtl]_vars

\* An HTTP/3 server with two requests whose streams the peer stops and whose
\* writes and flow-control queries can fail.
InitIso == InitWith({"DOWNSTREAM"}, {"h3-27"})

NextIso ==
  \/ OnTransportReady
  \/ (Cardinality(announced) < MaxRequests /\ OnNewBidirectionalStream)
  \/ OnReadAvailable
  \/ SendHeaders
  \/ OnConnectionWriteReady
  \/ RunLoopCallbackIn({"all", "error", FlowControlError}, {FALSE},
                       {MaxWindow}, {})
  \/ OnStopSending

SpecIso == InitIso /\ [][NextIso]_vars

\* A server that nothing closes but its idle timeout: a request comes and
\* goes, and the timeout expires at any moment.
InitIdle == InitWith({"DOWNSTREAM"}, {"h1q-fb", "h1q-fb-v2"})

NextIdle ==
  \/ OnTransportReady
  \/ (announced = {} /\ OnNewBidirectionalStream)
  \/ OnNewUnidirectionalStream
  \/ OnReadAvailable
  \/ SendHeaders
  \/ SendEOM
  \/ OnConnectionWriteReady
  \/ OnDeliveryAck
  \/ RunLoopCallback
  \/ TimeoutExpired

SpecIdle == InitIdle /\ [][NextIdle]_vars

\* The close handshake of H1Q_FB_V1: the requests and the responses of a
\* client and of a server, with and without Connection: close, and nothing
\* else that ends the drain.
InitClose == InitWith(Directions, {"h1q-fb"})

NextClose ==
  \/ OnTransportReady
  \/ (Cardinality(announced) < MaxRequests /\ OnNewBidirectionalStream)
  \/ (numLocalBidi < MaxRequests /\ NewTransaction)
  \/ OnReadAvailable
  \/ SendHeaders
  \/ NotifyPendingShutdown
  \/ OnConnectionWriteReady
  \/ RunLoopCallback

SpecClose == InitClose /\ [][NextClose]_vars

\* A client in every drain state a client gets to: it is told of a pending
\* shutdown, gets GOAWAYs on the framed profile and sends and observes
\* Connection: close on the unframed one, and keeps asking for transactions.
InitDrain == InitWith({"UPSTREAM"}, {"h1q-fb", "h1q-fb-v2"})

NextDrain ==
  \/ OnTransportReady
  \/ (announced = {} /\ OnNewUnidirectionalStream)
  \/ OnPeekDataAvailable
  \/ NewTransaction
  \/ SendHeaders
  \/ OnReadAvailable
  \/ OnConnectionWriteReady
  \/ RunLoopCallback
  \/ OnGoaway
  \/ NotifyPendingShutdown

SpecDrain == InitDrain /\ [][NextDrain]_vars

\* a server on HTTP/3 whose transactions skip parts of their bodies
InitSkip == InitWith({"DOWNSTREAM"}, {"h3-27"})

NextSkip ==
  \/ OnTransportReady
  \/ (announced = {} /\ OnNewBidirectionalStream)
  \/ OnReadAvailable
  \/ SendHeaders
  \/ SendBody
  \/ SkipBodyTo
  \/ OnConnectionWriteReady
  \/ RunLoopCallbackIn(AcceptAll, {FALSE}, {1, MaxWindow}, {})

SpecSkip == InitSkip /\ [][NextSkip]_vars

\* a server on HTTP/3 whose peer sends header blocks that wait for its
\* QPACK encoder stream
InitBlock == InitWith({"DOWNSTREAM"}, {"h3-27"})

NextBlock ==
  \/ OnTransportReady
  \/ (Cardinality(announced) < MaxRequests /\ OnNewBidirectionalStream)
  \/ (announced \cap PeerUniIds(direction) = {} /\ OnNewUnidirectionalStream)
  \/ OnPeekDataAvailableOf({"QPACK_ENCODER"})
  \/ OnReadAvailableOf({"MSG", "MSG_BLOCKED"})
  \/ OnEncoderStreamData
  \/ SendHeaders
  \/ OnConnectionWriteReady
  \/ RunLoopCallbackIn(AcceptAll, {FALSE}, {MaxWindow}, {})
  \/ DropConnection

SpecBlock == InitBlock /\ [][NextBlock]_vars

\* ================================================================ properties
\* the order of the drain states: every transition of the code goes up
DrainRank(d) ==
  CASE d = "NONE" -> 0
    [] d = "PENDING" -> 1
    [] d = "CLOSE_SENT" -> 2
    [] d = "CLOSE_RECEIVED" -> 3
    [] d = "FIRST_GOAWAY" -> 4
    [] d = "SECOND_GOAWAY" -> 5
    [] d = "DONE" -> 6

\* C1: every change of the drain state moves forward in the order NONE,
\* PENDING, CLOSE_SENT, CLOSE_RECEIVED, FIRST_GOAWAY, SECOND_GOAWAY, DONE: no
\* state is entered again once it was left, NONE is never entered again and
\* DONE is never left, whatever the handlers and their order.
C1_DrainMovesForward ==
  [][DrainRank(drainState') >= DrainRank(drainState)]_vars

\* a server that went through PENDING, FIRST_GOAWAY and SECOND_GOAWAY to DONE
\* on the acknowledgements of its two GOAWAYs
C1_Witness ==
  /\ drainState = "DONE"
  /\ log.goawayAcks = 2
  /\ Len(log.goaways) = 2

\* C2 as stated: once the drain state is DONE and no stream is left the
\* session destroys itself, and destroy() is invoked once only: no later
\* checkForShutdown, the one of the loop callback's scope guard after a
\* deferred drop included, invokes it again.
C2_DestroyInvokedOnce == log.destroyCalls <= 1

\* C2, amended: destroy() is only invoked with the drain state DONE, no
\* stream left and the socket closed; it is invoked twice in the loop
\* callback that performs a deferred drop (by dropConnectionSync and again by
\* the scope guard, both under the destructor guard of the callback), once
\* otherwise, and the session is deleted when that callback returns.  A
\* session that is DONE and without streams does not survive its next loop
\* callback, nor an idle timeout that finds no loop callback scheduled.
C2_DestroyedOnce ==
  /\ [](log.destroyCalls <= 2)
  /\ [](log.destroyCalls = 2 =>
          /\ log.asyncDrops # <<>>
          /\ log.drops = <<Head(log.asyncDrops)>>)
  /\ [](log.destroyCalls > 0 =>
          /\ log.destroyed
          /\ drainState = "DONE"
          /\ streams = << >>
          /\ ~sock)
  /\ [][~(/\ drainState = "DONE" /\ streams = << >>
          /\ Alive'
          /\ RunLoopCallback)]_vars
  /\ [][~(/\ drainState = "DONE" /\ streams = << >> /\ ~loopScheduled
          /\ Alive'
          /\ \E gw \in GoawayOutcomes : Apply(timeoutExpired(Self, gw)))]_vars

\* the session deleted by the loop callback of a deferred drop, where both
\* dropConnectionSync and the scope guard have invoked destroy()
C2_Witness ==
  /\ log.destroyed
  /\ log.destroyCalls = 2
  /\ drainState = "DONE"
  /\ log.drops # <<>>

\* a server of a profile with a control stream, once the transport is ready
FramedServer ==
  /\ Ready
  /\ direction = "DOWNSTREAM"
  /\ version \in {"H1Q_FB_V2", "HQ"}

\* the step starts the drain of a session that was not draining
DrainStep ==
  /\ drainState = "NONE"
  /\ (NotifyPendingShutdown \/ CloseWhenIdle)

\* the step has generated one GOAWAY, for stream id, and has registered its
\* delivery callback
GoawayEmitted(id) ==
  /\ log'.goaways = Append(log.goaways, id)
  /\ controlStreams'[ConnControlType(Self)].deliveryCbs # <<>>

\* the step has ended the drain and has registered no delivery callback: cbs
\* are the callbacks that were registered before
DrainShortcut(cbs) ==
  /\ drainState' = "DONE"
  /\ Len(log'.goaways) <= Len(log.goaways) + 1
  /\ Alive' => controlStreams'[ConnControlType(Self)].deliveryCbs = cbs

\* C3 as stated: on a server of a framed profile the drain emits a first
\* GOAWAY with the largest varint stream id and the state becomes
\* FIRST_GOAWAY; the acknowledgement of its delivery emits a second GOAWAY
\* with maxIncomingStreamId and the state becomes SECOND_GOAWAY; the
\* acknowledgement of the second makes the state DONE.
C3_GoawaySequence ==
  [][FramedServer =>
       /\ ~(/\ ~(drainState' = "FIRST_GOAWAY" /\ GoawayEmitted(kEightByteLimit))
            /\ DrainStep)
       /\ ~(/\ drainState = "FIRST_GOAWAY"
            /\ ~(/\ drainState' = "SECOND_GOAWAY"
                 /\ GoawayEmitted(maxIncomingStreamId))
            /\ OnControlDeliveryAck)
       /\ ~(/\ drainState = "SECOND_GOAWAY"
            /\ drainState' # "DONE"
            /\ OnControlDeliveryAck)]_vars

\* C3, amended: each of the two GOAWAYs is emitted, and the state moves to
\* FIRST_GOAWAY and to SECOND_GOAWAY, only when the codec generates the frame
\* and the transport registers its delivery callback; when either fails the
\* state becomes DONE at once and no acknowledgement is waited for.  The
\* first GOAWAY carries the largest varint stream id, the second
\* maxIncomingStreamId, and the acknowledgement of the second makes the
\* state DONE.
C3_GoawaySequenceOrShortcut ==
  /\ [][FramedServer =>
         /\ ~(/\ ~(drainState' = "FIRST_GOAWAY" /\ GoawayEmitted(kEightByteLimit))
              /\ ~DrainShortcut(<<>>)
              /\ DrainStep)
         /\ ~(/\ drainState = "FIRST_GOAWAY"
              /\ ~(/\ drainState' = "SECOND_GOAWAY"
                   /\ GoawayEmitted(maxIncomingStreamId))
              /\ ~DrainShortcut(
                    Tail(controlStreams[ConnControlType(Self)].deliveryCbs))
              /\ OnControlDeliveryAck)
         /\ ~(/\ drainState = "SECOND_GOAWAY"
              /\ drainState' # "DONE"
              /\ OnControlDeliveryAck)]_vars
  /\ [](FramedServer /\ drainState = "FIRST_GOAWAY" =>
          log.goaways = <<kEightByteLimit>>)
  /\ [](FramedServer /\ drainState = "SECOND_GOAWAY" =>
          log.goaways = <<kEightByteLimit, maxIncomingStreamId>>)

\* a server with a request stream that sent both GOAWAYs, the second for the
\* stream of the peer, and is DONE on the second acknowledgement
C3_Witness ==
  /\ FramedServer
  /\ drainState = "DONE"
  /\ log.goawayAcks = 2
  /\ announced # {}
  /\ log.goaways = <<kEightByteLimit, maxIncomingStreamId>>
  /\ ~dropping

\* the transaction of stream id was failed with err
FailedWith(id, err) ==
  \E i \in DOMAIN streams[id].errs : streams[id].errs[i] = err

\* C4: on a client, once a GOAWAY of the peer was processed, no request
\* stream with an id above the smallest id received in a GOAWAY is created,
\* and every stream the client opened that is above that id and still has
\* its transaction was failed with StreamUnacknowledged.
C4_GoawayBoundsLocalStreams ==
  /\ [](direction = "UPSTREAM" /\ log.goawayRecv > 0 =>
          \A id \in DOMAIN streams :
            (~streams[id].detached /\ id > maxAllowedStreamId) =>
              FailedWith(id, "kErrorStreamUnacknowledged"))
  /\ [][direction = "UPSTREAM" /\ log.goawayRecv > 0 =>
          \A id \in DOMAIN streams' \ DOMAIN streams :
            id <= maxAllowedStreamId']_vars

\* a client after a GOAWAY for stream 0: its second request stream was
\* failed, still waits for a byte event, and a new transaction was refused
C4_Witness ==
  /\ direction = "UPSTREAM"
  /\ log.goawayRecv > 0
  /\ log.newTxnRefused
  /\ \E id \in DOMAIN streams :
       /\ id > maxAllowedStreamId
       /\ FailedWith(id, "kErrorStreamUnacknowledged")

\* C5: maxIncomingStreamId is at least the id of every stream of the peer
\* that onNewBidirectionalStream put into the map of request streams; it
\* never goes down, and it only changes to the id of a stream accepted in
\* the same step, so a stream that checkNewStream rejects leaves it alone.
C5_MaxIncomingCoversAccepted ==
  /\ [](\A id \in DOMAIN streams :
          id \in PeerBidiIds(direction) => maxIncomingStreamId >= id)
  /\ [][maxIncomingStreamId' >= maxIncomingStreamId]_vars
  /\ [][maxIncomingStreamId' # maxIncomingStreamId =>
          maxIncomingStreamId' \in DOMAIN streams' \ DOMAIN streams]_vars

\* a server that accepted stream 4 and then, draining, rejected stream 8
C5_Witness ==
  /\ direction = "DOWNSTREAM"
  /\ 4 \in DOMAIN streams
  /\ maxIncomingStreamId = 4
  /\ <<8, "HTTP_REQUEST_REJECTED">> \in log.stopSending

RequiredTypes(v) ==
  {RequiredControlStreams(v)[i] : i \in DOMAIN RequiredControlStreams(v)}

\* C7: setup succeeds only with exactly the egress control streams of the
\* profile created, one per type and each on a stream of its own: CONTROL,
\* QPACK_ENCODER and QPACK_DECODER for HTTP/3, H1Q_CONTROL for framed HTTP/1,
\* none for unframed HTTP/1.  When the transport refuses one of them setup
\* fails and the connection is dropped with CONNECT_FAILED.
C7_EgressControlStreams ==
  /\ setup = "ok" /\ Alive =>
       /\ DOMAIN controlStreams = RequiredTypes(version)
       /\ numLocalUni = Cardinality(RequiredTypes(version))
       /\ \A t1, t2 \in DOMAIN controlStreams :
            t1 # t2 => controlStreams[t1].egressId # controlStreams[t2].egressId
  /\ setup = "ok" => "Emplacement failed" \notin log.checks
  /\ setup = "failed" /\ versionUtils =>
       /\ version \in {"H1Q_FB_V2", "HQ"}
       /\ log.drops = <<"CONNECT_FAILED">>
       /\ log.destroyed

\* an HTTP/3 session set up with its three egress control streams
C7_Witness ==
  /\ setup = "ok"
  /\ Alive
  /\ version = "HQ"
  /\ DOMAIN controlStreams = {"CONTROL", "QPACK_ENCODER", "QPACK_DECODER"}

\* C8 as stated: in the profiles with a control stream no byte of a request
\* stream, of a QPACK stream or of a GOAWAY is handed to the transport
\* before the SETTINGS frame was handed to it whole, whatever the write
\* budgets and the flow-control windows.
C8_NothingBeforeSettings ==
  version \in {"H1Q_FB_V2", "HQ"} => log.early = {}

\* what the control stream of HTTP/3 carries first: its preface and then
\* the SETTINGS frame
ControlStart(i) == IF i = 1 THEN "PREFACE" ELSE "SETTINGS"

\* C8, amended: in HTTP/3 the SETTINGS frame is queued on the control stream
\* right after the stream preface, so on the control stream itself nothing,
\* a GOAWAY included, is handed to the transport before SETTINGS; the bytes
\* of request streams and QPACK streams are written in the same loop after
\* the control streams and may precede SETTINGS when the window of the
\* control stream or the budget holds it back.  The framed HTTP/1 profile
\* sends no SETTINGS frame.
C8_SettingsFirstOnControl ==
  /\ version = "HQ" => "CONTROL" \notin log.early
  /\ version = "HQ" /\ setup = "ok" /\ Alive =>
       /\ \A i \in DOMAIN controlStreams["CONTROL"].writeBuf :
            controlStreams["CONTROL"].written + i <= 1 + SettingsLen =>
              controlStreams["CONTROL"].writeBuf[i] =
                ControlStart(controlStreams["CONTROL"].written + i)
       /\ controlStreams["CONTROL"].written + Len(controlStreams["CONTROL"].writeBuf)
            >= 1 + SettingsLen
       /\ log.settingsWritten =
            Max(0, Min(controlStreams["CONTROL"].written - 1, SettingsLen))
  /\ version = "H1Q_FB_V2" => log.settingsWritten = 0

\* an HTTP/3 session that wrote a GOAWAY after SETTINGS on its control
\* stream, and bytes of another stream before SETTINGS was out
C8_Witness ==
  /\ version = "HQ"
  /\ Alive
  /\ setup = "ok"
  /\ log.settingsWritten = SettingsLen
  /\ controlStreams["CONTROL"].written > 1 + SettingsLen
  /\ log.goaways # <<>>
  /\ log.early # {}

\* the preface of pending stream id is of a type whose control stream has
\* its ingress codec already
DuplicateControl(id, preface) ==
  /\ Ready
  /\ id \in pendingUni \cap peekCb
  /\ parseStreamPreface(Self, preface) # "none"
  /\ preface \in DOMAIN controlStreams
  /\ controlStreams[preface].ingressCodec

WrongStreamCount == [code |-> "HTTP_WRONG_STREAM_COUNT", perr |-> "kErrorConnection"]

\* C9 as stated: a stream of the peer whose type has an ingress codec
\* already makes the session drop the connection once, with
\* HTTP_WRONG_STREAM_COUNT, and leaves the ingress stream id and the codec of
\* the control stream as they were.
C9_DuplicateDropsWithWrongStreamCount ==
  [][\A id \in pendingUni, preface \in Prefaces :
       ~(/\ DuplicateControl(id, preface)
         /\ ~(/\ dropInNextLoop' = WrongStreamCount
              /\ controlStreams' = controlStreams)
         /\ Apply(onPrefaceDecoded(Self, id, preface)))]_vars

\* C9, amended: such a stream asks for a deferred drop with
\* HTTP_WRONG_STREAM_COUNT, which is latched unless a deferred drop is
\* latched already (the first one latched is kept), leaves every control
\* stream as it was and is rejected with STOP_SENDING.  The next loop
\* callback performs the latched drop with the latched code, and a session
\* performs one drop at most.
C9_DuplicateLatchesDrop ==
  /\ [][\A id \in pendingUni, preface \in Prefaces :
         ~(/\ DuplicateControl(id, preface)
           /\ ~(/\ dropInNextLoop' =
                      IF dropInNextLoop = NoDrop THEN WrongStreamCount
                      ELSE dropInNextLoop
                /\ log'.asyncDrops =
                      Append(log.asyncDrops, "HTTP_WRONG_STREAM_COUNT")
                /\ loopScheduled'
                /\ controlStreams' = controlStreams
                /\ <<id, "HTTP_UNKNOWN_STREAM_TYPE">> \in log'.stopSending
                /\ id \notin peekCb' \cup readCb'
                /\ log'.drops = log.drops)
           /\ Apply(onPrefaceDecoded(Self, id, preface)))]_vars
  /\ [][~(/\ dropInNextLoop # NoDrop
          /\ log'.drops # <<dropInNextLoop.code>>
          /\ RunLoopCallback)]_vars
  /\ [](dropInNextLoop # NoDrop /\ Alive => loopScheduled)
  /\ [](Len(log.drops) <= 1)

\* the session dropped with HTTP_WRONG_STREAM_COUNT by the loop callback
\* after a second stream of a type
C9_Witness ==
  /\ log.asyncDrops = <<"HTTP_WRONG_STREAM_COUNT">>
  /\ log.drops = <<"HTTP_WRONG_STREAM_COUNT">>
  /\ log.destroyed

\* C10: when the preface of a stream of the peer is of no type the profile
\* knows, the session sends STOP_SENDING with HTTP_UNKNOWN_STREAM_TYPE on
\* the stream, takes its peek and its read callback away, installs no
\* ingress codec on any control stream and neither drops the connection nor
\* asks for a drop.
C10_UnknownPrefaceRejected ==
  [][\A id \in pendingUni, preface \in Prefaces :
       ~(/\ Ready
         /\ id \in peekCb
         /\ parseStreamPreface(Self, preface) = "none"
         /\ ~(/\ log'.stopSending =
                   log.stopSending \cup {<<id, "HTTP_UNKNOWN_STREAM_TYPE">>}
              /\ id \notin peekCb' \cup readCb'
              /\ controlStreams' = controlStreams
              /\ dropInNextLoop' = dropInNextLoop
              /\ log'.asyncDrops = log.asyncDrops
              /\ log'.drops = log.drops
              /\ dropping' = dropping
              /\ drainState' = drainState
              /\ sock' = sock
              /\ Alive')
         /\ Apply(onPrefaceDecoded(Self, id, preface)))]_vars

\* a session that rejected a stream of unknown type: it has no ingress
\* control stream, is not dropped and has no drop pending
C10_Witness ==
  /\ Ready
  /\ \E id \in announced \ (peekCb \cup readCb \cup pendingUni) :
       <<id, "HTTP_UNKNOWN_STREAM_TYPE">> \in log.stopSending
  /\ \A t \in DOMAIN controlStreams : ~controlStreams[t].ingressCodec
  /\ log.asyncDrops = <<>>
  /\ dropInNextLoop = NoDrop
  /\ sock

\* C11: for every request stream, in every reachable state, bytesWritten is
\* the number of bytes the transport accepted from the writeChain calls for
\* that stream: what the transport hands back is not counted and goes back to
\* the front of the write buffer (the accepted bytes and the buffered bytes
\* are, in this order, the bytes the codec generated, until the egress side
\* is aborted and the buffer dropped), and a failed write adds nothing.
C11_BytesWrittenIsAccepted ==
  \A id \in DOMAIN streams :
     /\ streams[id].bytesWritten = Len(streams[id].wire)
     /\ \A i \in DOMAIN streams[id].wire : streams[id].wire[i] = i
     /\ \A i \in DOMAIN streams[id].writeBuf :
           streams[id].writeBuf[i] = streams[id].bytesWritten + i

\* a stream of which the transport took two bytes and handed one back, with
\* one more byte buffered
C11_Witness ==
  \E id \in DOMAIN streams :
     /\ streams[id].bytesWritten = 2
     /\ streams[id].handedBack = 1
     /\ Len(streams[id].writeBuf) = 1

\* C12: for every transaction, over any sequence of session events (codec
\* error, peer reset, STOP_SENDING, peer GOAWAY above the limit, deferred or
\* synchronous connection drop), the session gives the transaction a terminal
\* onError at most once, and never once the transaction's message went out
\* with its EOM and the peer's message came in whole.
C12_OneTerminalError ==
  \A id \in DOMAIN streams :
     /\ Len(streams[id].errs) <= 1
     /\ streams[id].egressEOM /\ streams[id].ingressHeaders =>
           streams[id].errs = <<>>

\* C13: for every EOM whose FIN was written to the transport, the
\* transaction is told exactly once what became of its last byte:
\* onEgressLastByteAck once the transport has acknowledged the delivery,
\* onDeliveryCanceled once the transport has canceled the delivery callback,
\* and nothing before either.
C13_LastByteAckOrCanceled ==
  \A id \in DOMAIN streams :
     /\ streams[id].finCb = "acked" =>
           streams[id].byteEvents = <<"onEgressLastByteAck">>
     /\ streams[id].finCb = "canceled" =>
           streams[id].byteEvents = <<"onDeliveryCanceled">>
     /\ streams[id].finCb \in {"none", "registered"} =>
           streams[id].byteEvents = <<>>

\* the code the claim gives for the reply to a reset of stream id
ReplyCode(id) ==
  IF direction = "UPSTREAM" THEN "HTTP_REQUEST_CANCELLED"
  ELSE IF ~streams[id].ingressHeaders THEN "HTTP_REQUEST_REJECTED"
  ELSE "HTTP_NO_ERROR"

\* the step aborts stream id with this code, in both directions, and with no
\* other code
AbortsWith(id, code) ==
  /\ <<id, code>> \in log'.resets
  /\ <<id, code>> \in log'.stopSending
  /\ log'.resets \subseteq log.resets \cup {<<id, code>>}
  /\ log'.stopSending \subseteq log.stopSending \cup {<<id, code>>}

\* C14: when the peer resets a request stream that is not detached, the code
\* the session resets the stream with in reply depends on the role and on
\* the progress of the ingress only: REQUEST_CANCELLED on an upstream session,
\* REQUEST_REJECTED on a downstream session whose transaction has not started
\* ingress, NO_ERROR on a downstream session whose transaction has.
C14_ResetReplyCode ==
  [][\A id \in readCb \cap DOMAIN streams, c \in ResetCodes :
       ~(/\ Ready
         /\ ~streams[id].detached
         /\ ~AbortsWith(id, ReplyCode(id))
         /\ Apply(readError([Self EXCEPT !.readCb = @ \ {id}], id, AppError(c))))]_vars

\* a server that answered NO_ERROR to the reset of a request it had read
C14_Witness ==
  /\ direction = "DOWNSTREAM"
  /\ \E id \in DOMAIN streams :
        /\ streams[id].ingressHeaders
        /\ <<id, "HTTP_NO_ERROR">> \in log.resets
        /\ streams[id].errs # <<>>

\* the error the claim gives for a reset with code c
ResetError(c) ==
  IF c = "GIVEUP_ZERO_RTT" THEN "kErrorEarlyDataFailed"
  ELSE IF c = "HTTP_REQUEST_REJECTED" THEN "kErrorStreamUnacknowledged"
  ELSE "kErrorStreamAbort"

\* the step gives the transaction of stream id this error and no other
ErrorsWith(id, err) ==
  /\ id \in DOMAIN streams'
  /\ streams'[id].errs = Append(streams[id].errs, err)

\* C15: when the peer resets a request stream with code R, the transaction
\* is given EarlyDataFailed if R is GIVEUP_ZERO_RTT, StreamUnacknowledged if R
\* is REQUEST_REJECTED and StreamAbort for every other R; a STOP_SENDING with
\* code R gives it StreamUnacknowledged if R is REQUEST_REJECTED and
\* StreamAbort otherwise.
C15_ResetErrorMapping ==
  [][\A id \in DOMAIN streams, c \in ResetCodes :
       /\ ~(/\ Ready
            /\ id \in readCb
            /\ ~streams[id].detached
            /\ ~ErrorsWith(id, ResetError(c))
            /\ Apply(readError([Self EXCEPT !.readCb = @ \ {id}], id, AppError(c))))
       /\ ~(/\ Ready
            /\ id \notin log.stopped
            /\ ~streams[id].detached
            /\ ~ErrorsWith(id, IF c = "HTTP_REQUEST_REJECTED"
                               THEN "kErrorStreamUnacknowledged"
                               ELSE "kErrorStreamAbort")
            /\ Apply(onStopSending([Self EXCEPT !.log.stopped = @ \cup {id}],
                                   id, c, NoConnError)))]_vars

\* a transaction that was told EarlyDataFailed when the peer reset its stream
C15_Witness ==
  \E id \in DOMAIN streams :
     /\ streams[id].errs = <<"kErrorEarlyDataFailed">>
     /\ id \notin readCb
     /\ log.resets # {}

\* the loop callback ran to its end, wrote nothing for stream id and took
\* it off the egress queue
LeftQueueUnwritten(id) ==
  /\ log'.checks = {}
  /\ id \in DOMAIN streams'
  /\ ~streams'[id].enqueued
  /\ streams'[id].wire = streams[id].wire
  /\ streams'[id].writeBuf = streams[id].writeBuf

\* C16: when the one stream of the egress queue has bytes buffered and a send
\* window of 0, a loop callback with a positive budget, all of which reaches
\* the request streams, writes no byte for the stream and takes it off the
\* egress queue without aborting, so that a later onFlowControlUpdate with a
\* window above 0 can put it back.
C16_BlockedStreamLeavesQueue ==
  [][\A id \in DOMAIN streams :
       ~(/\ Alive
         /\ loopScheduled
         /\ dropInNextLoop = NoDrop
         /\ maxToSend > 0
         /\ loopControlWriters(FALSE) = {}
         /\ loopEgressQueue = {id}
         /\ streams[id].writeBuf # <<>>
         /\ ~LeftQueueUnwritten(id)
         /\ Apply(runLoopCallback(Self, <<>>, <<>>, [x \in {id} |-> 0], <<id>>,
                                  [x \in {id} |-> "all"], FALSE,
                                  NoControlErrors)))]_vars

\* --- C17
RECURSIVE SumOf(_, _)
SumOf(f, S) ==
  IF S = {} THEN 0
  ELSE LET x == CHOOSE y \in S : TRUE IN f[x] + SumOf(f, S \ {x})

\* the bytes the transport took for the control stream t and for the request
\* stream id between the session states a and b
ControlTaken(a, b) ==
  [t \in DOMAIN a.controlStreams |->
     b.controlStreams[t].written - a.controlStreams[t].written]
RequestTaken(a, b) ==
  [id \in DOMAIN a.streams |->
     Len(b.streams[id].wire) - Len(a.streams[id].wire)]
TotalTaken(a, b) ==
  SumOf(ControlTaken(a, b), DOMAIN a.controlStreams)
    + SumOf(RequestTaken(a, b), DOMAIN a.streams)

\* the writes of one loop callback kept to the budget and to the windows
WithinBudget(a, b, budget, cw, sw) ==
  /\ TotalTaken(a, b) <= budget
  /\ \A t \in DOMAIN a.controlStreams :
        ControlTaken(a, b)[t] <= IF t \in DOMAIN cw THEN cw[t] ELSE 0
  /\ \A id \in DOMAIN a.streams :
        RequestTaken(a, b)[id] <= IF id \in DOMAIN sw THEN sw[id] ELSE 0

StepRank(name) ==
  CASE name = "dropConnectionSync" -> 0
    [] name = "processReadData" -> 1
    [] name = "readDataProcessed" -> 2
    [] name \in {"controlStreamWriteImpl", "writeControlStreams"} -> 3
    [] name \in {"handleWrite", "writeRequestStreams"} -> 4
    [] name = "checkForShutdown" -> 5

Occurrences(seq, name) == Cardinality({i \in 1 .. Len(seq) : seq[i] = name})

InOrder(seq, dropLatched) ==
  /\ \A i \in 1 .. Len(seq) - 1 : StepRank(seq[i]) <= StepRank(seq[i + 1])
  /\ seq # <<>> /\ seq[Len(seq)] = "checkForShutdown"
  /\ Occurrences(seq, "checkForShutdown") = 1
  /\ IF dropLatched
     THEN seq = <<"dropConnectionSync", "checkForShutdown">>
     ELSE /\ Occurrences(seq, "dropConnectionSync") = 0
          /\ Occurrences(seq, "processReadData") = 1
          /\ Occurrences(seq, "readDataProcessed") = 1
          /\ Occurrences(seq, "writeControlStreams") = 1
          /\ Occurrences(seq, "writeRequestStreams") <= 1

\* the steps of the loop callback that is about to run, for each input
LoopSteps ==
  {runLoopCallback(Self, in.cw, in.co, in.sw, in.so,
                   [x \in loopEgressQueue |-> "all"], in.ici,
                   NoControlErrors).log.steps :
     in \in UNION {[cw : [loopControlWriters(ici) -> 0 .. MaxWindow],
                    co : Perms(loopControlWriters(ici)),
                    sw : [loopEgressQueue -> 0 .. MaxWindow],
                    so : Perms(loopEgressQueue),
                    ici : {ici}] : ici \in IciChoices(BOOLEAN)}}

\* C18: the steps of one run of the loop callback come in this order only: a
\* latched deferred drop first, and then nothing but the shutdown check;
\* otherwise the processing of the buffered reads, the read-processed hook of
\* the version, the writes of the control streams, the writes of the request
\* streams and the shutdown check, so that no request stream is written
\* before a control stream in the same run.
C18_LoopOrder ==
  (Alive /\ loopScheduled) =>
    \A seq \in LoopSteps : InOrder(seq, dropInNextLoop # NoDrop)

\* a loop callback is about to run that processes a read, sends an insert
\* count increment of the hook on a control stream and writes a request
\* stream
C18_Witness ==
  /\ Alive /\ loopScheduled
  /\ pendingProcessReadSet # {}
  /\ \E seq \in LoopSteps :
       /\ Occurrences(seq, "controlStreamWriteImpl") >= 1
       /\ Occurrences(seq, "handleWrite") >= 1
  /\ \E cw \in [loopControlWriters(TRUE) -> {MaxWindow}],
        co \in Perms(loopControlWriters(TRUE)) :
       /\ "QPACK_DECODER" \in loopControlWriters(TRUE)
       /\ "QPACK_DECODER" \notin loopControlWriters(FALSE)
       /\ TRUE \in IciChoices(BOOLEAN)
       /\ runLoopCallbackWrites(loopAfterReads(TRUE), cw, co,
                                [x \in loopEgressQueue |-> 0],
                                CHOOSE f \in Perms(loopEgressQueue) : TRUE,
                                [x \in loopEgressQueue |-> "all"],
                                NoControlErrors)
            .controlStreams["QPACK_DECODER"].written
          > controlStreams["QPACK_DECODER"].written

\* --- C19
\* the streams a readAvailable can come for
Readable ==
  {id \in readCb \cap DOMAIN streams :
     ~streams[id].detached /\ streams[id].readBuf = <<>>}

\* C19: between two runs of the loop callback the session reads from the
\* transport for at most kMaxReadsPerLoop = 16 readAvailable events; a
\* readAvailable that comes when 16 were counted reads nothing, buffers
\* nothing and schedules nothing; and a loop callback that is not a deferred
\* drop starts by setting the counter to 0.
C19_ReadsPerLoop ==
  Alive =>
    /\ log.serviced <= kMaxReadsPerLoop
    /\ readsPerLoop <= kMaxReadsPerLoop
    /\ readsPerLoop >= kMaxReadsPerLoop =>
         \A id \in Readable, data \in {"MSG", BlankRead} :
            readAvailable(Self, id, data) = [Self EXCEPT !.log.skipped = TRUE]
    /\ (loopScheduled /\ dropInNextLoop = NoDrop) =>
         runLoopCallbackReads(Self, FALSE).readsPerLoop = 0

\* sixteen reads were serviced since the loop callback ran last, and one
\* more readAvailable was skipped
C19_Witness ==
  /\ Alive
  /\ readsPerLoop = kMaxReadsPerLoop
  /\ log.serviced = kMaxReadsPerLoop
  /\ log.skipped
  /\ Readable # {}

\* --- C20
\* what a dropConnectionAsync can be given
DropRequests ==
  {[code |-> "HTTP_WRONG_STREAM_COUNT", perr |-> "kErrorConnection"],
   [code |-> "HTTP_CLOSED_CRITICAL_STREAM", perr |-> "kErrorConnection"],
   [code |-> "HTTP_CLOSED_CRITICAL_STREAM", perr |-> "kErrorConnectionReset"]}

\* C20: the slot of the deferred drop keeps the first request: once it holds
\* an error code and a proxygen error, no step of the session changes it, a
\* further dropConnectionAsync changes nothing of the session, and the loop
\* callback that finds the slot filled drops the connection with the code
\* and the proxygen error of the slot, those of the first request.
C20_FirstDropLatched ==
  /\ [][dropInNextLoop # NoDrop => dropInNextLoop' = dropInNextLoop]_vars
  /\ [](dropInNextLoop # NoDrop =>
          /\ log.asyncDrops # <<>>
          /\ dropInNextLoop.code = Head(log.asyncDrops)
          /\ \A r \in DropRequests :
               dropConnectionAsync(Self, r.code, r.perr) =
                 [Self EXCEPT !.log.asyncDrops = Append(@, r.code)])
  /\ [][~(/\ Alive
          /\ dropInNextLoop # NoDrop
          /\ ~dropping
          /\ ~(/\ log'.drops = Append(log.drops, Head(log.asyncDrops))
               /\ log'.dropErrs = Append(log.dropErrs, dropInNextLoop.perr))
          /\ RunLoopCallback)]_vars

\* two requests with different codes were made, and the loop callback
\* dropped the connection with the code and the error of the first
C20_Witness ==
  /\ Len(log.asyncDrops) = 2
  /\ log.asyncDrops[1] # log.asyncDrops[2]
  /\ log.drops = <<log.asyncDrops[1]>>
  /\ log.dropErrs = <<dropInNextLoop.perr>>
  /\ dropInNextLoop.code = log.asyncDrops[1]

\* --- C21
\* C21: onConnectionError is never entered while onStopSending is running: a
\* connection error that comes up inside onStopSending is put in the slot of
\* the deferred drop and left to a later loop callback, and the session is
\* not torn down in onStopSending.
C21_NoTeardownInOnStopSending ==
  /\ "!isInOnStopSending_" \notin log.checks
  /\ \A id \in DOMAIN streams, code \in ResetCodes :
       (Ready /\ id \notin log.stopped) =>
          LET n == onStopSending(Self, id, code, "PEER_CLOSE")
          IN /\ n.dropInNextLoop # NoDrop
             /\ n.log.drops = log.drops
             /\ n.log.checks = {}

\* --- C22
CriticalStream(perr) ==
  [code |-> "HTTP_CLOSED_CRITICAL_STREAM", perr |-> perr]

\* the step asked for a drop with HTTP_CLOSED_CRITICAL_STREAM, which is
\* latched when no drop was latched before
AsksForCriticalDrop(perr) ==
  /\ log'.asyncDrops = Append(log.asyncDrops, "HTTP_CLOSED_CRITICAL_STREAM")
  /\ dropInNextLoop' =
       IF dropInNextLoop = NoDrop THEN CriticalStream(perr) ELSE dropInNextLoop
  /\ loopScheduled'
  /\ log'.drops = log.drops

AsksForNoDrop ==
  /\ log'.asyncDrops = log.asyncDrops
  /\ dropInNextLoop' = dropInNextLoop
  /\ log'.drops = log.drops

\* the loop callback that writes the one control stream t with the answer
\* wr of the transport
WritesControl(t, w, wr) ==
  /\ Alive /\ loopScheduled /\ dropInNextLoop = NoDrop
  /\ loopControlWriters(FALSE) = {t}
  /\ loopEgressQueue = {}
  /\ Apply(runLoopCallback(Self, [x \in {t} |-> w], <<t>>, <<>>, <<>>, <<>>,
                           FALSE, [x \in {t} |-> wr]))

\* C22 as stated: after any error on a control stream other than a local
\* NO_ERROR, the drop that is latched has the code
\* HTTP_CLOSED_CRITICAL_STREAM.
C22_ControlErrorDropsWithCriticalStream ==
  [][\A t \in DOMAIN controlStreams, kind \in ErrorKinds \ {"localNoError"} :
       ~(/\ Ready
         /\ controlStreams[t].ingressId \in readCb
         /\ ~(/\ dropInNextLoop' # NoDrop
              /\ dropInNextLoop'.code = "HTTP_CLOSED_CRITICAL_STREAM")
         /\ Apply(controlStreamReadError(
                    [Self EXCEPT !.readCb = @ \ {controlStreams[t].ingressId}],
                    controlStreams[t].ingressId, kind)))]_vars

\* C22, amended: a read error on a control stream, and an error of
\* getStreamFlowControl or of writeChain when a control stream is written,
\* asks for a deferred drop with HTTP_CLOSED_CRITICAL_STREAM when it is an
\* application code of the peer, a transport error or a local error other
\* than NO_ERROR; the request is latched unless a drop was latched before,
\* which is then kept.  A local NO_ERROR asks for no drop.
C22_ControlErrorAsksForDrop ==
  /\ [][\A t \in DOMAIN controlStreams, kind \in ErrorKinds :
         ~(/\ Ready
           /\ controlStreams[t].ingressId \in readCb
           /\ ~(IF kind = "localNoError" THEN AsksForNoDrop
                ELSE AsksForCriticalDrop(toProxygenError(kind)))
           /\ Apply(controlStreamReadError(
                      [Self EXCEPT !.readCb = @ \ {controlStreams[t].ingressId}],
                      controlStreams[t].ingressId, kind)))]_vars
  /\ [][\A t \in DOMAIN controlStreams, w \in 0 .. MaxWindow,
          wr \in ControlWriteErrors :
         ~(/\ ~(IF wr.kind = "localNoError" THEN AsksForNoDrop
                ELSE AsksForCriticalDrop(IF wr.at = "writeChain"
                                         THEN "kErrorWrite"
                                         ELSE toProxygenError(wr.kind)))
           /\ WritesControl(t, w, wr))]_vars

\* a failed write of the control stream has latched the drop, and a read
\* error on the control stream came after it
C22_Witness ==
  /\ Alive
  /\ dropInNextLoop = CriticalStream("kErrorWrite")
  /\ log.asyncDrops =
       <<"HTTP_CLOSED_CRITICAL_STREAM", "HTTP_CLOSED_CRITICAL_STREAM">>
  /\ log.drops = <<>>

\* --- C23
\* n is the session after an error on the request stream id: nothing of the
\* session and of the other request streams has changed
RequestsUntouched(id, n) ==
  /\ n.drainState = drainState
  /\ n.dropInNextLoop = dropInNextLoop
  /\ n.dropping = dropping
  /\ n.sock = sock
  /\ n.log.asyncDrops = log.asyncDrops
  /\ n.log.drops = log.drops
  /\ n.log.close = log.close
  /\ n.log.checks = {}
  /\ DOMAIN n.streams = DOMAIN streams
  /\ \A o \in DOMAIN streams \ {id} : n.streams[o] = streams[o]
  /\ DOMAIN n.controlStreams = DOMAIN controlStreams

\* ... and nothing of the control streams either
AllUntouched(id, n) ==
  /\ RequestsUntouched(id, n)
  /\ n.controlStreams = controlStreams

\* ... but for the QPACK stream cancellation that the abort of a stream
\* queues on the decoder stream in HTTP/3
OthersUntouched(id, n) ==
  /\ RequestsUntouched(id, n)
  /\ \A t \in DOMAIN controlStreams :
        \/ n.controlStreams[t] = controlStreams[t]
        \/ /\ version = "HQ" /\ t = "QPACK_DECODER"
           /\ n.controlStreams[t] =
                [controlStreams[t] EXCEPT !.writeBuf = Append(@, "QPACK")]

\* the transaction of the stream got one error and is over
TransactionFailed(id, n) ==
  /\ n.streams[id].txnDone
  /\ Len(n.streams[id].errs) = Len(streams[id].errs) + 1

\* a reset of the peer, a STOP_SENDING, a failed write and a failed
\* flow-control query on a request stream fail the transaction of the stream
\* and leave the rest Untouched; a failed flow-control query in
\* onFlowControlUpdate changes nothing at all
StreamErrorsLeave(Untouched(_, _)) ==
  Ready =>
    \A id \in DOMAIN streams :
      /\ \A c \in ResetCodes :
           /\ (id \in readCb /\ ~streams[id].detached) =>
                LET n == readError(Self, id, AppError(c))
                IN Untouched(id, n) /\ TransactionFailed(id, n)
           /\ LET n == onStopSending(Self, id, c, NoConnError)
              IN /\ Untouched(id, n)
                 /\ ~streams[id].detached => TransactionFailed(id, n)
      /\ streams[id].enqueued =>
           \A wr \in {"error", FlowControlError} :
             LET n == requestStreamWriteImpl(Self, id, MaxWindow, MaxWindow, wr).s
             IN /\ Untouched(id, n)
                /\ ~streams[id].detached => TransactionFailed(id, n)
                /\ ~n.streams[id].enqueued
      /\ onFlowControlUpdate(Self, id, TRUE, 0) = Self

\* C23 as stated: a reset of the peer, a STOP_SENDING, a failed write and a
\* failed flow-control query on a request stream fail the transaction of that
\* stream and leave the drain state, the slot of the deferred drop, the
\* socket and the buffers of every other stream, control streams included,
\* as they were.
C23_StreamErrorTouchesNoOtherStream == StreamErrorsLeave(AllUntouched)

\* C23: a reset of the peer, a STOP_SENDING, a failed write and a failed
\* flow-control query on a request stream fail the transaction of that
\* stream and leave the drain state, the slot of the deferred drop, the
\* socket and the buffers, the queue membership and the transaction of every
\* other request stream as they were; of the control streams only the write
\* buffer of the QPACK decoder stream changes, in HTTP/3, by the cancellation
\* of the stream.
C23_StreamErrorStaysOnStream == StreamErrorsLeave(OthersUntouched)

\* the write or the flow-control query of one request failed in a loop
\* callback, which reset the stream and erased it once its transaction had
\* detached, and the other request is still waiting in the egress queue with
\* its bytes
C23_Witness ==
  /\ Ready
  /\ drainState = "NONE" /\ dropInNextLoop = NoDrop /\ sock
  /\ \E id \in announced \ DOMAIN streams, o \in DOMAIN streams :
       /\ id \notin log.stopped
       /\ <<id, "HTTP_REQUEST_CANCELLED">> \in log.resets
       /\ streams[o].errs = <<>>
       /\ ~streams[o].txnDone
       /\ streams[o].enqueued
       /\ streams[o].writeBuf # <<>>

\* --- C24
\* C24: when the idle timeout of the session expires while it has a stream,
\* the timeout is reset and nothing else changes: the drain state, the
\* streams and the close reason are as before.  When it expires without a
\* stream, the close reason TIMEOUT is set first and closeWhenIdle runs: the
\* drain has begun (and is DONE at once in H1Q_FB_V1), no pending
\* unidirectional stream has a callback left, and the timeout is not reset.
C24_IdleTimeout ==
  Alive =>
    \A gw \in GoawayOutcomes :
      LET n == timeoutExpired(Self, gw)
      IN IF getNumStreams(Self) > 0
         THEN n = [Self EXCEPT !.log.steps = <<"resetTimeout">>]
         ELSE /\ n.log.steps # <<>>
              /\ n.log.steps[1] = "setCloseReason TIMEOUT"
              /\ \A i \in 1 .. Len(n.log.steps) : n.log.steps[i] # "resetTimeout"
              /\ n = closeWhenIdle(
                       [Self EXCEPT !.log.steps = <<"setCloseReason TIMEOUT">>],
                       gw)
              /\ n.drainState # "NONE"
              /\ (drainState = "NONE" /\ version = "H1Q_FB_V1")
                    => n.drainState = "DONE"
              /\ sock => (n.readCb \cup n.peekCb) \cap pendingUni = {}

\* a request came and went, and then the timeout of the session, which has no
\* stream left, began the drain and cleared the callbacks of the pending
\* unidirectional stream
C24_Witness ==
  /\ \E id \in announced : isBidirectionalStream(id)
  /\ DOMAIN streams = {}
  /\ drainState # "NONE"
  /\ pendingUni # {}
  /\ (readCb \cup peekCb) \cap pendingUni = {}
  /\ ~log.destroyed
  /\ log.drops = <<>>

\* --- C25
\* C25: a request stream is erased exactly when it is detached, its read
\* buffer and its write buffer are empty, it has no pending EOM and it is not
\* in the egress queue: every stream that was erased was so at that moment,
\* and checkForShutdown erases the streams of the session that are so and
\* no other.
C25_ErasedExactlyWhenDone ==
  /\ \A e \in log.erased : e[2]
  /\ Alive =>
       LET n == checkForShutdown(Self)
       IN \A id \in DOMAIN streams :
            id \notin DOMAIN n.streams <=> Detachable(streams[id])

\* one request was erased when it was over, and another one, which is
\* detached too, stays for the bytes it has still to write
C25_Witness ==
  /\ Alive
  /\ \E e \in log.erased : e[2]
  /\ \E id \in DOMAIN streams :
       streams[id].detached /\ ~Detachable(streams[id])

\* --- C26
\* the number of times the handler that gave n cleared the callbacks of id
TimesCleared(n, id) ==
  Cardinality({i \in 1 .. Len(n.log.cleared) : n.log.cleared[i] = id})

\* C26: when the session is dropped while unidirectional streams are pending
\* in the dispatcher, the read and the peek callback of every pending stream
\* are cleared, once each.
C26_PendingClearedOnceOnDrop ==
  (Ready /\ ~dropping) =>
    LET n == dropConnection(Self)
    IN \A id \in pendingUni :
         /\ id \notin n.readCb \cup n.peekCb
         /\ TimesCleared(n, id) = 1

\* --- C27
\* the drain state after headers were emitted, and after headers of the peer
\* were observed, in H1Q_FB_V1
AfterEmitting(state, wantsKeepalive) ==
  CASE state = "NONE" -> IF wantsKeepalive THEN "NONE" ELSE "CLOSE_SENT"
    [] state = "PENDING" -> "CLOSE_SENT"
    [] state = "CLOSE_RECEIVED" -> "DONE"
    [] OTHER -> state

AfterObserving(state, close) ==
  CASE close /\ state \in {"NONE", "PENDING"} -> "CLOSE_RECEIVED"
    [] close /\ state = "CLOSE_SENT" -> "DONE"
    [] OTHER -> state

\* C27: in H1Q_FB_V1 the drain state is DONE only after headers were emitted
\* while draining and a Connection: close of the peer was observed; emitting
\* headers moves PENDING to CLOSE_SENT and CLOSE_RECEIVED to DONE, observing
\* the close of the peer moves NONE and PENDING to CLOSE_RECEIVED and
\* CLOSE_SENT to DONE, and no GOAWAY frame is generated: the session has no
\* control stream.
C27_CloseHandshake ==
  (Ready /\ version = "H1Q_FB_V1") =>
    /\ drainState = "DONE" => log.connClose = {"emitted", "observed"}
    /\ drainState = "CLOSE_SENT" => "emitted" \in log.connClose
    /\ drainState = "CLOSE_RECEIVED" => "observed" \in log.connClose
    /\ \A id \in DOMAIN streams, wantsKeepalive \in BOOLEAN, eom \in BOOLEAN,
          gw \in GoawayOutcomes :
         (~streams[id].detached /\ ~streams[id].egressHeaders) =>
           sendHeaders(Self, id, wantsKeepalive, eom, gw).drainState
             = AfterEmitting(drainState, wantsKeepalive)
    /\ \A id \in DOMAIN streams :
         (~streams[id].detached /\ streams[id].readBuf # <<>>
            /\ ~streams[id].ingressError) =>
           streamProcessReadData(Self, id).drainState
             = AfterObserving(drainState, Head(streams[id].readBuf) = "MSG_CLOSE")
    /\ log.goaways = <<>>
    /\ DOMAIN controlStreams = {}
    /\ \A gw \in GoawayOutcomes :
         sendGoaway(Self, gw).controlStreams = controlStreams

\* the handshake is over, both ways, while a request is still there
C27_Witness ==
  /\ Ready /\ version = "H1Q_FB_V1"
  /\ drainState = "DONE"
  /\ log.connClose = {"emitted", "observed"}
  /\ DOMAIN streams # {}

\* --- C28
\* the code a new stream of the peer is refused with, "none" when the policy
\* of the profile lets it in
RefusedWith(id) ==
  IF version = "H1Q_FB_V1"
  THEN IF isUnidirectionalStream(id) \/ isServerStream(id)
       THEN "HTTP_WRONG_STREAM" ELSE "none"
  ELSE IF isBidirectionalStream(id) /\ isServerStream(id)
       THEN "HTTP_WRONG_STREAM"
  ELSE IF /\ drainState # "NONE"
          /\ \/ direction = "UPSTREAM" /\ id > maxAllowedStreamId
             \/ /\ direction = "DOWNSTREAM" /\ isBidirectionalStream(id)
                /\ id > maxIncomingStreamId
       THEN "HTTP_REQUEST_REJECTED"
  ELSE "none"

\* the session n has told the transport to abort the stream with the code
AbortedWith(n, id, code) ==
  /\ <<id, code>> \in n.log.stopSending
  /\ isBidirectionalStream(id) => <<id, code>> \in n.log.resets
  /\ \A c \in {"HTTP_WRONG_STREAM", "HTTP_REQUEST_REJECTED"} \ {code} :
       <<id, c>> \notin n.log.stopSending \cup n.log.resets

\* C28: a new stream of the peer that the policy of the profile refuses is
\* aborted with the code of the policy and is added neither to the request
\* streams nor to the dispatcher; it gets no callback and maxIncomingStreamId
\* stays as it was.
C28_RefusedStreamLeavesNoTrace ==
  Ready =>
    \A id \in (PeerBidiIds(direction) \cup PeerUniIds(direction)) \ announced :
      LET n == IF isBidirectionalStream(id)
               THEN onNewBidirectionalStream(Self, id)
               ELSE onNewUnidirectionalStream(Self, id)
      IN RefusedWith(id) # "none" =>
           /\ AbortedWith(n, id, RefusedWith(id))
           /\ n.streams = streams
           /\ n.pendingUni = pendingUni
           /\ n.readCb = readCb /\ n.peekCb = peekCb
           /\ n.maxIncomingStreamId = maxIncomingStreamId

\* a draining server has refused a request above its limit
C28_Witness ==
  /\ Ready
  /\ direction = "DOWNSTREAM"
  /\ drainState # "NONE"
  /\ \E id \in announced :
       /\ <<id, "HTTP_REQUEST_REJECTED">> \in log.resets
       /\ id > maxIncomingStreamId
       /\ id \notin DOMAIN streams

\* --- C29
\* a stream of the session n has bytes left in its write buffer
EgressLeft(n) ==
  \/ \E t \in DOMAIN n.controlStreams : n.controlStreams[t].writeBuf # <<>>
  \/ \E id \in DOMAIN n.streams : n.streams[id].writeBuf # <<>>

\* C29: when a run of the loop callback has used up its budget and a control
\* stream or a request stream has bytes left in its write buffer, the run
\* has asked the transport for another write-ready notification.  The send
\* windows of the streams are wide open: the budget alone stops the writes.
C29_LeftoverAsksForWriteReady ==
  (Alive /\ loopScheduled /\ dropInNextLoop = NoDrop /\ maxToSend > 0) =>
    \A cw \in [loopControlWriters(FALSE) -> {MaxWindow}],
       co \in Perms(loopControlWriters(FALSE)),
       sw \in [loopEgressQueue -> {MaxWindow}],
       so \in Perms(loopEgressQueue) :
      LET wo == [x \in loopEgressQueue |-> "all"]
          a == loopAfterReads(FALSE)
          b == runLoopCallbackWrites(a, cw, co, sw, so, wo, NoControlErrors)
          n == runLoopCallback(Self, cw, co, sw, so, wo, FALSE, NoControlErrors)
      IN (TotalTaken(a, b) = maxToSend /\ EgressLeft(b) /\ n.sock)
            => n.scheduledWrite

\* --- C30
\* newTransaction gave no transaction: no stream was asked of the transport
\* and the session has the streams it had
NoTransaction(n) ==
  /\ n.streams = streams
  /\ n.numLocalBidi = numLocalBidi
  /\ n.readCb = readCb
  /\ n.log.newTxnRefused

\* newTransaction gave the transaction of a new stream
NewTransactionOn(n, id) ==
  /\ id \notin DOMAIN streams
  /\ DOMAIN n.streams = DOMAIN streams \cup {id}
  /\ n.streams[id] = NewStream
  /\ id \in n.readCb

\* C30 as stated: newTransaction gives no transaction in any drain state but
\* NONE.
C30_NoTransactionWhileDraining ==
  (Ready /\ direction = "UPSTREAM" /\ drainState # "NONE") =>
    NoTransaction(newTransaction(Self, TRUE))

\* C30: newTransaction gives no transaction in the drain states CLOSE_SENT,
\* FIRST_GOAWAY and DONE; in PENDING and CLOSE_RECEIVED, as in NONE, it gives
\* the transaction of a new stream when the transport creates the stream.
C30_NoTransactionOnceCloseIsOut ==
  (Ready /\ direction = "UPSTREAM") =>
    /\ drainState \in {"NONE", "PENDING", "CLOSE_SENT", "CLOSE_RECEIVED",
                       "FIRST_GOAWAY", "DONE"}
    /\ drainState \in {"CLOSE_SENT", "FIRST_GOAWAY", "DONE"} =>
         \A created \in BOOLEAN : NoTransaction(newTransaction(Self, created))
    /\ (drainState \in {"NONE", "PENDING", "CLOSE_RECEIVED"} /\ sock) =>
         NewTransactionOn(newTransaction(Self, TRUE),
                          LocalBidiId(direction, numLocalBidi))

\* the client has sent its Connection: close and was refused a transaction;
\* it has two requests, one of them still to be sent
C30_Witness ==
  /\ Ready /\ direction = "UPSTREAM"
  /\ drainState = "CLOSE_SENT"
  /\ log.newTxnRefused
  /\ numLocalBidi = 2
  /\ \E id \in DOMAIN streams : ~streams[id].egressHeaders

\* --- C31
\* what the transaction of the stream st may hold back: nothing, or, while
\* its message is not complete on the transport, body bytes and an EOM
Deferred(st) ==
  {NoDeferred} \cup
  IF st.egressHeaders /\ ~st.egressEOM /\ ~st.txnDone /\ ~st.detached
  THEN {t \in [enqueued : {TRUE}, body : 0 .. BodyLen, eom : BOOLEAN,
               give : 0 .. BodyLen] :
          t.give <= t.body /\ (t.body > 0 \/ t.eom)}
  ELSE {}

\* the stream and the transaction as the write finds them, after the
\* onWriteReady that requestStreamWriteImpl may call
BeforeWrite(s, id, txn, canSend) ==
  IF wantsOnWriteReady(s.streams[id], txn, canSend)
  THEN onWriteReady(s, id, txn, canSend - Len(s.streams[id].writeBuf))
  ELSE [txn |-> txn, s |-> s]

\* the transport results of a write that does not fail
Accepting == WriteOutcomes \ {"error"}

\* C31: a write of a request stream that the transport does not fail asks
\* for the FIN exactly when the stream has a pending EOM, all of its write
\* buffer fits into this write and its enqueued transaction holds back no
\* body; a write that asks for the FIN leaves nothing in the write buffer
\* but what the transport hands back; and the write clears the pending EOM
\* exactly when it asked for the FIN and the transport took every byte of it.
C31_FinOnLastWrite ==
  Alive =>
    \A id \in txnEgressQueue(Self) :
      \A maxEgress \in 1 .. MaxToSend, window \in 0 .. MaxWindow,
         wr \in Accepting, txn \in Deferred(streams[id]) :
        LET canSend == Min(window, maxEgress)
            b == BeforeWrite(Self, id, txn, canSend)
            st == b.s.streams[id]
            r == requestStreamWriteOf(Self, id, maxEgress, window, wr, txn)
            a == r.s.streams[id]
        IN r.written =>
             /\ r.sendEof <=> /\ st.pendingEOM
                              /\ Len(st.writeBuf) <= canSend
                              /\ ~(b.txn.enqueued /\ b.txn.body > 0)
             /\ r.sendEof => Len(a.writeBuf) = r.sendLen - r.sent
             /\ (st.pendingEOM /\ ~a.pendingEOM)
                  <=> (r.sendEof /\ r.sent = r.sendLen)
             /\ (r.sendEof /\ r.sent = r.sendLen) => a.finCb = "registered"

\* a write that asks for the FIN after the transaction handed over its last
\* body byte and its EOM in onWriteReady; the transport hands one byte back
\* and the EOM stays pending
C31_Witness ==
  /\ Alive
  /\ \E id \in txnEgressQueue(Self) :
       \E txn \in Deferred(streams[id]) :
         LET r == requestStreamWriteOf(Self, id, MaxToSend, MaxWindow, "back1",
                                       txn)
         IN /\ txn.body > 0 /\ txn.eom
            /\ streams[id].writeBuf # <<>>
            /\ r.written /\ r.sendEof
            /\ r.sent = r.sendLen - 1
            /\ r.s.streams[id].pendingEOM
            /\ r.s.streams[id].finCb = "none"

\* --- C32
\* what a GOAWAY of the peer leaves behind: the drain state, the limit for
\* new streams and the errors given to the transactions
GoawayEffect(n) ==
  <<n.drainState, n.maxAllowedStreamId,
    [id \in DOMAIN n.streams |-> n.streams[id].errs]>>

\* C32: on a client, a second onGoaway with the lastGoodStreamID of the
\* first is a no-op: it leaves the drain state, maxAllowedStreamId and the
\* failed streams as the first invocation left them.
C32_OnGoawayIdempotent ==
  (/\ Ready
   /\ direction = "UPSTREAM"
   /\ version # "H1Q_FB_V1"
   /\ controlStreams[ConnControlType(Self)].ingressCodec) =>
    \A lastGood \in {kEightByteLimit} \cup
                    {LocalBidiId(direction, n) : n \in 0 .. NumLocalBidi - 1} :
      LET once == onGoaway(Self, lastGood)
          twice == onGoaway(once, lastGood)
      IN once.sock => GoawayEffect(twice) = GoawayEffect(once)

\* --- C33
\* the offset in the stream, counted from 0, of the last byte generated for
\* the egress side of a control stream
LastByteOffset(cs) == WriteOffset(cs) + Len(cs.writeBuf) - 1

\* C33: while the delivery callback of a GOAWAY is armed and the frame is
\* the last thing generated on the control stream, the offset the latest
\* callback is registered at is the offset of the last byte of that GOAWAY.
C33_GoawayAckAtLastByte ==
  (Ready /\ direction = "DOWNSTREAM" /\ version # "H1Q_FB_V1") =>
    LET cs == controlStreams[ConnControlType(Self)]
    IN (/\ cs.deliveryCbs # <<>>
        /\ log.goaways # <<>>
        /\ cs.writeBuf # <<>>
        /\ cs.writeBuf[Len(cs.writeBuf)] = "GOAWAY") =>
         cs.deliveryCbs[Len(cs.deliveryCbs)] = LastByteOffset(cs)

\* --- C34
\* the session inside dropConnectionSync, once dropping_ is set and the
\* socket is closed and released
MidDrop(s, code) ==
  LET s0 == [s EXCEPT !.dropping = TRUE]
  IN IF getNumStreams(s0) > 0 THEN closeSocket(s0, code)
     ELSE IF s0.sock THEN closeSocket(s0, "none") ELSE s0

\* the handler that took the session from a to b generated no GOAWAY and did
\* not use a socket that was released
NoGoawayNoSocket(a, b) ==
  /\ b.log.goaways = a.log.goaways
  /\ b.log.sockMisuse = a.log.sockMisuse

\* C34: a session generates at most two GOAWAY frames and never uses the
\* socket it released; once dropping_ is set or the drain state is DONE no
\* step generates a GOAWAY; and a delivery ack or a cancel of the control
\* stream that arrives inside dropConnectionSync, after the socket was
\* released or after the transactions were failed, or after the drop has
\* returned, generates no GOAWAY and does not use the socket.
C34_NoGoawayOnceDropping ==
  /\ [](Len(log.goaways) <= 2 /\ ~log.sockMisuse)
  /\ [][(dropping \/ drainState = "DONE") => log.goaways' = log.goaways]_vars
  /\ [](Ready /\ ~dropping =>
          \A gw \in GoawayOutcomes :
            LET mid == MidDrop(Self, "HTTP_NO_ERROR")
                failed == errorAllStreams(mid, "kErrorDropped")
                after == dropConnection(Self)
            IN \A x \in {mid, failed, after} :
                 /\ NoGoawayNoSocket(x, ControlOnDeliveryAck(x, gw))
                 /\ NoGoawayNoSocket(x, ControlOnCanceled(x)))

\* a server that has sent its first GOAWAY and waits for the acknowledgement,
\* with a request open: the drop cancels the delivery callback, which ends
\* the drain, and an acknowledgement that arrives after that finds nothing
\* to send
C34_Witness ==
  /\ Ready /\ ~dropping
  /\ direction = "DOWNSTREAM"
  /\ drainState = "FIRST_GOAWAY"
  /\ Len(log.goaways) = 1
  /\ controlStreams[ConnControlType(Self)].deliveryCbs # <<>>
  /\ getNumStreams(Self) > 0
  /\ MidDrop(Self, "HTTP_NO_ERROR").drainState = "DONE"
  /\ ~MidDrop(Self, "HTTP_NO_ERROR").sock
  /\ ControlOnDeliveryAck(MidDrop(Self, "HTTP_NO_ERROR"), "sent").log.goaways
       = log.goaways

\* --- C35
\* what a skipBodyTo mapped to the stream offset off does to the stream id:
\* the bytes it takes off the write buffer and what it adds to bytesSkipped
Removed(id, off) ==
  Len(streams[id].writeBuf)
    - Len(skipBodyTo(Self, id, TRUE, off).streams[id].writeBuf)
Skipped(id, off) ==
  skipBodyTo(Self, id, TRUE, off).streams[id].bytesSkipped
    - streams[id].bytesSkipped

\* a skip below the committed bytes changes nothing
RewindIgnored(id, off) ==
  streamEgressCommittedByteOffset(streams[id]) > off =>
    /\ trimPendingEgressBody(streams[id], off).trimBytes = 0
    /\ skipBodyTo(Self, id, TRUE, off).streams[id].writeBuf
         = streams[id].writeBuf
    /\ Skipped(id, off) = 0

CanSkip(id) ==
  /\ ~streams[id].detached /\ ~streams[id].txnDone
  /\ streams[id].egressHeaders /\ ~streams[id].egressEOM

\* C35 as stated: a skip to an offset below the committed bytes is ignored,
\* and any other skip adds to bytesSkipped exactly the number of bytes it
\* takes off the write buffer.
C35_SkippedIsRemoved ==
  Ready =>
    \A id \in DOMAIN streams, off \in 0 .. MaxSkipOffset :
      CanSkip(id) =>
        /\ RewindIgnored(id, off)
        /\ streamEgressCommittedByteOffset(streams[id]) <= off =>
             Skipped(id, off) = Removed(id, off)

\* C35, amended: a skip to an offset below the committed bytes is ignored;
\* any other skip adds to bytesSkipped the distance from the committed bytes
\* to the offset, so that the committed offset becomes the offset, and takes
\* off the front of the write buffer that many bytes or all it holds.
C35_SkippedIsDistance ==
  Ready =>
    \A id \in DOMAIN streams, off \in 0 .. MaxSkipOffset :
      CanSkip(id) =>
        LET st == streams[id]
            n == skipBodyTo(Self, id, TRUE, off).streams[id]
            committed == streamEgressCommittedByteOffset(st)
        IN /\ RewindIgnored(id, off)
           /\ committed <= off =>
                /\ Skipped(id, off) = off - committed
                /\ streamEgressCommittedByteOffset(n) = off
                /\ Removed(id, off) = Min(off - committed, Len(st.writeBuf))
                /\ n.writeBuf = SubSeq(st.writeBuf, Removed(id, off) + 1,
                                       Len(st.writeBuf))

\* a stream that has skipped before, with a byte on the wire and a byte in
\* the buffer: a skip to the committed offset less one is ignored, and a
\* skip two bytes ahead takes the one byte off the buffer and counts two
C35_Witness ==
  /\ Ready
  /\ \E id \in DOMAIN streams :
       LET st == streams[id]
           committed == streamEgressCommittedByteOffset(st)
       IN /\ CanSkip(id)
          /\ st.bytesSkipped > 0
          /\ st.bytesWritten > 0
          /\ Len(st.writeBuf) = 1
          /\ committed + 2 <= MaxSkipOffset
          /\ Skipped(id, committed - 1) = 0
          /\ Removed(id, committed + 2) = 1
          /\ Skipped(id, committed + 2) = 2

\* --- C36
\* C36: CHECK(sendLen > 0 || sendEof) of requestStreamWriteImpl never fails:
\* whatever the send window of the stream (0 included), the budget left, the
\* bytes buffered and the pending EOM are, a stream the egress queue hands
\* to requestStreamWriteImpl has a byte to send or its FIN.
C36_WriteCheckHolds == "sendLen > 0 || sendEof" \notin log.checks

\* --- C37
\* C37: in every state in which the session exists and no drop has run, the
\* first dropConnectionSync returns with no stream left (its closing CHECK
\* holds), the drain state DONE, the socket released and no loop callback
\* scheduled; and an invocation made from inside it, after the socket was
\* released or after the transactions were failed, closes no socket and
\* fails no transaction.
C37_DropLeavesNothing ==
  (Alive /\ ~dropping) =>
    LET n == dropConnectionSync(Self, "HTTP_NO_ERROR", "kErrorDropped")
        mid == MidDrop(Self, "HTTP_NO_ERROR")
        failed == errorAllStreams(mid, "kErrorDropped")
    IN /\ getNumStreams(n) = 0
       /\ n.drainState = "DONE"
       /\ ~n.sock
       /\ ~n.loopScheduled
       /\ n.log.checks = {}
       /\ ~n.log.sockMisuse
       /\ Len(n.log.close) = Len(log.close) + 1
       /\ \A x \in {mid, failed} :
            LET r == dropConnectionSync(x, "HTTP_NO_ERROR", "kErrorDropped")
            IN /\ r.log.close = x.log.close
               /\ r.streams = x.streams

\* a draining server with a request open that waits for the delivery of its
\* FIN, the delivery callback of a GOAWAY armed and a loop callback
\* scheduled: the drop erases the stream and leaves nothing scheduled
C37_Witness ==
  /\ Alive /\ ~dropping
  /\ drainState \in {"FIRST_GOAWAY", "SECOND_GOAWAY"}
  /\ loopScheduled
  /\ \E t \in DOMAIN controlStreams : controlStreams[t].deliveryCbs # <<>>
  /\ \E i \in DOMAIN streams :
       /\ streams[i].pendingByteEvents > 0
       /\ ~streams[i].detached
  /\ LET n == dropConnectionSync(Self, "HTTP_NO_ERROR", "kErrorDropped")
     IN /\ getNumStreams(n) = 0
        /\ ~n.loopScheduled
        /\ \A id \in DOMAIN streams : <<id, TRUE>> \in n.log.erased

\* --- C38
\* C38: while the session exists and has not been dropped, a loop callback
\* is scheduled whenever the pending-read set is not empty, whether the id
\* was put there by a read of the transport or by the onHeadersComplete of
\* a stream that the QPACK encoder stream unblocked and that has unparsed
\* bytes; and the reads of the next loop callback take every id out of the
\* set and give the read buffer of its stream to the codec, which parses it
\* whole or leaves it blocked.
C38_PendingReadsGetALoop ==
  /\ (Alive /\ ~dropping /\ pendingProcessReadSet # {}) => loopScheduled
  /\ (Alive /\ loopScheduled /\ dropInNextLoop = NoDrop) =>
       LET a == loopAfterReads(FALSE)
       IN \A id \in pendingProcessReadSet :
            /\ id \notin a.pendingProcessReadSet
            /\ id \in DOMAIN a.streams =>
                 \/ a.streams[id].readBuf = <<>>
                 \/ a.streams[id].blocked = "blocked"

\* a stream that was unblocked from the QPACK encoder stream is in the
\* pending-read set with its unparsed bytes, next to a stream put there by
\* a read, and the reads of the loop callback complete its message
C38_Witness ==
  /\ Alive /\ ~dropping /\ loopScheduled /\ dropInNextLoop = NoDrop
  /\ \E i, j \in pendingProcessReadSet :
       /\ i # j
       /\ streams[i].blocked = "unblocked"
       /\ streams[i].readBuf # <<>>
       /\ streams[j].blocked = "no"
       /\ streams[j].readBuf # <<>>
       /\ loopAfterReads(FALSE).streams[i].ingressHeaders
       /\ loopAfterReads(FALSE).pendingProcessReadSet = {}

\* --- C39
\* the largest of the ids of the peer's request streams that were announced,
\* zero when there is none
LargestAnnounced ==
  CHOOSE x \in (announced \cap PeerBidiIds(direction)) \cup {0} :
    \A y \in announced \cap PeerBidiIds(direction) : y <= x

\* C39: on a server of a framed profile maxIncomingStreamId does not change
\* once the drain state has left NONE; while the state is NONE it is the
\* largest id of the peer's request streams accepted so far (zero when there
\* is none), so the second GOAWAY carries the largest id accepted before the
\* drain began; and a stream of the peer that is accepted after the drain
\* began has an id that is not greater, while a greater one is rejected.
C39_MaxIncomingFrozenByDrain ==
  /\ [][(FramedServer /\ drainState # "NONE" /\ Alive') =>
          maxIncomingStreamId' = maxIncomingStreamId]_vars
  /\ [](FramedServer /\ drainState = "NONE" =>
          maxIncomingStreamId = LargestAnnounced)
  /\ [](FramedServer /\ Len(log.goaways) = 2 =>
          log.goaways[2] = maxIncomingStreamId)
  /\ [](FramedServer /\ Ready /\ drainState # "NONE" =>
          \A id \in PeerBidiIds(direction) \ announced :
            LET n == onNewBidirectionalStream(
                       [Self EXCEPT !.announced = @ \cup {id}], id)
            IN /\ n.maxIncomingStreamId = maxIncomingStreamId
               /\ id \in DOMAIN n.streams <=> id <= maxIncomingStreamId)

\* a server that accepted stream 4 first, drained and sent its second GOAWAY
\* for stream 4: stream 0 arriving now is accepted, stream 8 is rejected
C39_Witness ==
  /\ FramedServer /\ Ready
  /\ drainState = "SECOND_GOAWAY"
  /\ log.goaways = <<kEightByteLimit, 4>>
  /\ maxIncomingStreamId = 4
  /\ announced = {4}
  /\ 0 \in DOMAIN onNewBidirectionalStream(
                    [Self EXCEPT !.announced = @ \cup {0}], 0).streams
  /\ 8 \notin DOMAIN onNewBidirectionalStream(
                       [Self EXCEPT !.announced = @ \cup {8}], 8).streams

\* --- C40
\* C40: a unidirectional stream of the peer that the dispatcher holds as
\* pending, on a session that has not begun to drain and has not been
\* dropped, has its peek callback: nothing but the decoding of its preface
\* takes the callback away, the detaching of the last request stream
\* included.
C40_PendingKeepsPeekCallback ==
  (Ready /\ sock /\ ~dropping /\ drainState = "NONE") => pendingUni \subseteq peekCb

====
